---- MODULE Spec2Model ----
(***************************************************************************)
(* DuckIQ: the four metric jobs (store health, supplier health, promo      *)
(* performance, price index) over the shared DuckDB handle, the sales      *)
(* relation they read and the four output relations they append to.        *)
(*                                                                         *)
(* Conventions                                                             *)
(*  - a nullable cell is a sequence: <<>> is NULL/NaN, <<v>> holds v;      *)
(*  - a DataFrame is a sequence of row records, in row order;              *)
(*  - money and quantities are integers; a unit price is the exact         *)
(*    rational Total Sales / Quantity, kept as an integer numerator over   *)
(*    the frame-wide denominator UnitDen(df);                              *)
(*  - a value rounded to 2 decimals is kept in hundredths (93.33 is 9333). *)
(***************************************************************************)
EXTENDS Integers, Sequences, FiniteSets, TLC

----------------------------------------------------------------------------
(* Nullable cells and small arithmetic helpers                             *)

Null == <<>>
Some(v) == <<v>>
IsNull(c) == Len(c) = 0
NotNull(c) == Len(c) = 1
Val(c) == c[1]

Abs(x) == IF x < 0 THEN -x ELSE x
Min2(a, b) == IF a <= b THEN a ELSE b
Max2(a, b) == IF a >= b THEN a ELSE b

\* round(num/den, 2) in hundredths, den > 0; an exact tie goes to the even
\* neighbour as Python's round() does.
Round2(num, den) ==
    LET x == 100 * num
        q == x \div den
        r == x % den
    IN  IF 2 * r < den THEN q
        ELSE IF 2 * r > den THEN q + 1
        ELSE IF q % 2 = 0 THEN q ELSE q + 1

RECURSIVE SumSeq(_)
SumSeq(s) == IF s = <<>> THEN 0 ELSE s[1] + SumSeq(Tail(s))

RECURSIVE ProdSeq(_)
ProdSeq(s) == IF s = <<>> THEN 1 ELSE s[1] * ProdSeq(Tail(s))

RECURSIVE InsertSorted(_, _)
InsertSorted(x, s) ==
    IF s = <<>> THEN <<x>>
    ELSE IF x <= s[1] THEN <<x>> \o s
    ELSE <<s[1]>> \o InsertSorted(x, Tail(s))

RECURSIVE SortInts(_)
SortInts(s) == IF s = <<>> THEN <<>> ELSE InsertSorted(s[1], SortInts(Tail(s)))

\* Faulty variant of DropNaUnique: dropna() without unique().
\* OneRecordPerStore tells the two apart.
DropNa(s) ==
    LET kept == SelectSeq(s, NotNull)
    IN  [i \in 1..Len(kept) |-> Val(kept[i])]

\* Series.dropna().unique().tolist(): the present values in order of first
\* appearance.
RECURSIVE DropNaUnique(_)
DropNaUnique(s) ==
    IF s = <<>> THEN <<>>
    ELSE LET init == DropNaUnique(SubSeq(s, 1, Len(s) - 1))
             c == s[Len(s)]
         IN  IF IsNull(c) \/ (\E i \in 1..Len(init) : init[i] = Val(c))
             THEN init
             ELSE Append(init, Val(c))

Column(df, f) == [i \in 1..Len(df) |-> df[i][f]]

----------------------------------------------------------------------------
(* The sales relation                                                      *)

Row(store, item, desc, supplier, qty, total, rrp, subdept, section) ==
    [store |-> store, item |-> item, desc |-> desc, supplier |-> supplier,
     qty |-> qty, total |-> total, rrp |-> rrp,
     subdept |-> subdept, section |-> section]

\* Common denominator of the frame's unit prices: the product of the
\* magnitudes of its usable quantities.
UnitDen(df) ==
    ProdSeq([i \in 1..Len(df) |->
        IF NotNull(df[i].qty) /\ Val(df[i].qty) # 0
        THEN Abs(Val(df[i].qty)) ELSE 1])

\* Faulty variant of unit_price: a quantity of 0 gives the price 0 instead
\* of no price.  ZeroQuantityHasNoPrice tells the two apart.
unit_price_zero_filled(r, den) ==
    IF IsNull(r.qty) \/ IsNull(r.total) THEN Null
    ELSE IF Val(r.qty) = 0 THEN Some(0)
    ELSE LET q == Val(r.qty)
         IN  Some(Val(r.total) * (IF q < 0 THEN -1 ELSE 1) * (den \div Abs(q)))

\* df["Total Sales"] / df["Quantity"].replace(0, np.nan), as a numerator
\* over den: NULL when the quantity is 0 or either operand is missing.
unit_price(r, den) ==
    IF IsNull(r.qty) \/ IsNull(r.total) \/ Val(r.qty) = 0 THEN Null
    ELSE LET q == Val(r.qty)
         IN  Some(Val(r.total) * (IF q < 0 THEN -1 ELSE 1) * (den \div Abs(q)))

\* the frame with its derived unit_price column
WithUnitPrice(df) ==
    LET den == UnitDen(df)
    IN  [i \in 1..Len(df) |->
            [store |-> df[i].store, item |-> df[i].item,
             desc |-> df[i].desc,
             supplier |-> df[i].supplier, qty |-> df[i].qty,
             total |-> df[i].total, rrp |-> df[i].rrp,
             subdept |-> df[i].subdept, section |-> df[i].section,
             unit_price |-> unit_price(df[i], den)]]

----------------------------------------------------------------------------
(* Tukey fences on a group's unit prices                                   *)

\* 4 x Series.quantile(k/4) of a non-empty sorted sequence, by pandas'
\* default linear interpolation between the two nearest order statistics.
Quantile4(xs, k) ==
    LET h4 == k * (Len(xs) - 1)
        lo == h4 \div 4
        r == h4 % 4
    IN  IF r = 0 THEN 4 * xs[lo + 1]
        ELSE (4 - r) * xs[lo + 1] + r * xs[lo + 2]

\* <<4 x quantile(0.25), 4 x quantile(0.75)>> of the group's unit prices;
\* quantile() skips NaN prices and is NaN itself when no price is left
NoQuartiles == <<>>

Quartiles(subset) ==
    LET priced == SelectSeq(subset, LAMBDA r : NotNull(r.unit_price))
        xs == SortInts([i \in 1..Len(priced) |-> Val(priced[i].unit_price)])
    IN  IF xs = <<>> THEN NoQuartiles
        ELSE <<Quantile4(xs, 1), Quantile4(xs, 3)>>

\* number of rows of the group whose unit price lies outside
\* [q1 - 1.5 iqr, q3 + 1.5 iqr]; a NaN price, and NaN fences (no price at
\* all), compare False.
OutlierCount(subset) ==
    LET priced == SelectSeq(subset, LAMBDA r : NotNull(r.unit_price))
        quartiles == Quartiles(subset)
    IN  IF quartiles = NoQuartiles THEN 0
        ELSE LET q1 == quartiles[1]
                 q3 == quartiles[2]
                 iqr == q3 - q1
                 lower8 == 2 * q1 - 3 * iqr
                 upper8 == 2 * q3 + 3 * iqr
             IN  Len(SelectSeq(priced, LAMBDA r :
                     8 * Val(r.unit_price) < lower8 \/ 8 * Val(r.unit_price) > upper8))

----------------------------------------------------------------------------
(* Run stamps                                                              *)

\* Africa/Nairobi is UTC+3 all year; instants are counted in hours.
EAT_UTC_OFFSET == 3

\* run_ts.isoformat(): the civil time in EAT_TZ followed by its offset
isoformat(instant) ==
    [civil |-> instant + EAT_UTC_OFFSET, utcoffset |-> EAT_UTC_OFFSET]

\* DuckDB's cast of an ISO-8601 text with an offset to TIMESTAMP: the
\* instant, offset applied.
CastTimestamp(iso) == iso.civil - iso.utcoffset

----------------------------------------------------------------------------
(* compute_store_health: the per-store records                             *)

\* "; ".join(notes)
RECURSIVE JoinNotes(_)
JoinNotes(notes) ==
    IF notes = <<>> THEN ""
    ELSE IF Len(notes) = 1 THEN notes[1]
    ELSE notes[1] \o "; " \o JoinNotes(Tail(notes))

\* the notes list after the conditional appends: a flag whose condition
\* failed is simply not in the list
Appended(flags) == SelectSeq(flags, LAMBDA f : f # "")

\* Faulty variant of Penalty: the fraction is taken as a percentage, without
\* the factor 0.2 and the cap.  ScoresAboveFloor tells the two apart.
PenaltyInFull(count, n) == 100 * count

\* min(20, fraction * 100 * 0.2) for fraction = count/n, times n
Penalty(count, n) == Min2(20 * n, 20 * count)

\* Faulty variant of StoreScoreN: the penalties are added to the base score
\* instead of taken from it.  ScoresWithinBounds tells the two apart.
StoreScoreSlipped(n, miss_rrp, miss_sup, neg_qty, outliers) ==
    LET missing_pen == Min2(20 * n, 20 * miss_rrp + 20 * miss_sup)
        negative_pen == Min2(20 * n, 20 * neg_qty)
        outlier_pen == Min2(20 * n, 20 * outliers)
    IN  Max2(0, 100 * n + (missing_pen + negative_pen + outlier_pen))

\* health_engine.py lines 71-75, times n: the two missing fractions are
\* added first and their sum is capped once.
StoreScoreN(n, miss_rrp, miss_sup, neg_qty, outliers) ==
    LET missing_pen == Min2(20 * n, 20 * miss_rrp + 20 * miss_sup)
        negative_pen == Penalty(neg_qty, n)
        outlier_pen == Penalty(outliers, n)
    IN  Max2(0, 100 * n - (missing_pen + negative_pen + outlier_pen))

\* Faulty variant of StoreNotes: the thresholds are met at exactly 10% and
\* exactly 5% (>= for >).  StoreNotesFollowThresholds tells the two apart.
StoreNotesAtThreshold(n, miss_rrp, miss_sup, neg_qty, outliers) ==
    Appended(<<IF 10 * miss_rrp >= n THEN "RRP missing >10%" ELSE "",
                IF 10 * miss_sup >= n THEN "Supplier missing >10%" ELSE "",
                IF neg_qty > 0 THEN "Negative quantity present" ELSE "",
                IF 20 * outliers >= n THEN "High price variance" ELSE "">>)

StoreNotes(n, miss_rrp, miss_sup, neg_qty, outliers) ==
    Appended(<<IF 10 * miss_rrp > n THEN "RRP missing >10%" ELSE "",
                IF 10 * miss_sup > n THEN "Supplier missing >10%" ELSE "",
                IF neg_qty > 0 THEN "Negative quantity present" ELSE "",
                IF 20 * outliers > n THEN "High price variance" ELSE "">>)

\* Faulty variant of StoreRecord: the missing-RRP share is taken with sum()
\* in place of mean(), the number of rows instead of their fraction.
\* SharesWithinBounds tells the two apart.
StoreRecordSummed(df, store, run_id, run_ts) ==
    LET subset == SelectSeq(df, LAMBDA r : r.store = Some(store))
        n == Len(subset)
        miss_rrp == n * Len(SelectSeq(subset, LAMBDA r : IsNull(r.rrp)))
        miss_sup == Len(SelectSeq(subset, LAMBDA r : IsNull(r.supplier)))
        neg_qty == Len(SelectSeq(subset, LAMBDA r : NotNull(r.qty) /\ Val(r.qty) < 0))
        outliers == OutlierCount(subset)
    IN  [run_id |-> run_id,
         run_timestamp |-> isoformat(run_ts),
         store_name |-> store,
         score |-> Round2(StoreScoreN(n, miss_rrp, miss_sup, neg_qty, outliers), n),
         missing_rrp_pct |-> Round2(100 * miss_rrp, n),
         missing_supplier_pct |-> Round2(100 * miss_sup, n),
         negative_qty_pct |-> Round2(100 * neg_qty, n),
         extreme_price_pct |-> Round2(100 * outliers, n),
         notes |-> JoinNotes(StoreNotes(n, miss_rrp, miss_sup, neg_qty, outliers))]

StoreRecord(df, store, run_id, run_ts) ==
    LET subset == SelectSeq(df, LAMBDA r : r.store = Some(store))
        n == Len(subset)
        miss_rrp == Len(SelectSeq(subset, LAMBDA r : IsNull(r.rrp)))
        miss_sup == Len(SelectSeq(subset, LAMBDA r : IsNull(r.supplier)))
        neg_qty == Len(SelectSeq(subset, LAMBDA r : NotNull(r.qty) /\ Val(r.qty) < 0))
        outliers == OutlierCount(subset)
    IN  [run_id |-> run_id,
         run_timestamp |-> isoformat(run_ts),
         store_name |-> store,
         score |-> Round2(StoreScoreN(n, miss_rrp, miss_sup, neg_qty, outliers), n),
         missing_rrp_pct |-> Round2(100 * miss_rrp, n),
         missing_supplier_pct |-> Round2(100 * miss_sup, n),
         negative_qty_pct |-> Round2(100 * neg_qty, n),
         extreme_price_pct |-> Round2(100 * outliers, n),
         notes |-> JoinNotes(StoreNotes(n, miss_rrp, miss_sup, neg_qty, outliers))]

\* Faulty variant of StoreResults: the run id is drawn inside the loop, one
\* per store.  OneFreshStampPerBatch tells the two apart.
StoreResultsStampedEach(sales_df, run_id, run_ts) ==
    LET df == WithUnitPrice(sales_df)
        stores == DropNaUnique(Column(df, "store"))
    IN  [k \in 1..Len(stores) |->
            StoreRecord(df, stores[k], run_id + k - 1, run_ts)]

\* the results list built by the loop over stores (lines 43-94); a store
\* taken from the frame always has rows, so the n == 0 skip never applies
StoreResults(sales_df, run_id, run_ts) ==
    LET df == WithUnitPrice(sales_df)
        stores == DropNaUnique(Column(df, "store"))
    IN  [k \in 1..Len(stores) |-> StoreRecord(df, stores[k], run_id, run_ts)]

----------------------------------------------------------------------------
(* compute_supplier_health: drift and the per-supplier records             *)

\* Faulty variant of DriftItems: an item code sold by any supplier at all
\* counts as drifting.  DriftFlagsWholeRelation tells the two apart.
DriftItemsAnySupplier(df) ==
    {c \in {Val(df[i].item) : i \in {j \in 1..Len(df) : NotNull(df[j].item)}} :
        Cardinality({Val(df[i].supplier) :
            i \in {j \in 1..Len(df) :
                     df[j].item = Some(c) /\ NotNull(df[j].supplier)}}) > 0}

\* the item codes that groupby("Item_Code")["Supplier"].nunique() counts
\* more than one supplier for (NULL codes form no group, NULL suppliers are
\* not counted)
DriftItems(df) ==
    {c \in {Val(df[i].item) : i \in {j \in 1..Len(df) : NotNull(df[j].item)}} :
        Cardinality({Val(df[i].supplier) :
            i \in {j \in 1..Len(df) :
                     df[j].item = Some(c) /\ NotNull(df[j].supplier)}}) > 1}

\* df["drift_flag"] = df["Item_Code"].isin(drift_items)
compute_supplier_drift(df) ==
    LET drift_items == DriftItems(df)
    IN  [i \in 1..Len(df) |->
            [store |-> df[i].store, item |-> df[i].item,
             desc |-> df[i].desc,
             supplier |-> df[i].supplier, qty |-> df[i].qty,
             total |-> df[i].total, rrp |-> df[i].rrp,
             subdept |-> df[i].subdept, section |-> df[i].section,
             unit_price |-> df[i].unit_price,
             drift_flag |-> NotNull(df[i].item) /\ Val(df[i].item) \in drift_items]]

\* Faulty variant of SupplierScoreN: drift costs 20 points, the cap of the
\* other penalties, instead of 10.  SupplierScoreFormula tells the two apart.
SupplierScoreDriftTwenty(n, miss_rrp, miss_sup, neg_qty, outliers, drift_flag) ==
    LET missing_pen == Min2(20 * n, 20 * (miss_rrp + miss_sup))
        negative_pen == Penalty(neg_qty, n)
        outlier_pen == Penalty(outliers, n)
        drift_pen == IF drift_flag THEN 20 * n ELSE 0
    IN  Max2(0, 100 * n - (missing_pen + negative_pen + outlier_pen + drift_pen))

\* supplier_health_engine.py lines 78-83, times n
SupplierScoreN(n, miss_rrp, miss_sup, neg_qty, outliers, drift_flag) ==
    LET missing_pen == Min2(20 * n, 20 * (miss_rrp + miss_sup))
        negative_pen == Penalty(neg_qty, n)
        outlier_pen == Penalty(outliers, n)
        drift_pen == IF drift_flag THEN 10 * n ELSE 0
    IN  Max2(0, 100 * n - (missing_pen + negative_pen + outlier_pen + drift_pen))

SupplierNotes(n, miss_rrp, neg_qty, outliers, drift_flag) ==
    Appended(<<IF 10 * miss_rrp > n THEN "RRP missing >10%" ELSE "",
                IF neg_qty > 0 THEN "Negative quantity present" ELSE "",
                IF 20 * outliers > n THEN "High price variance" ELSE "",
                IF drift_flag THEN "Supplier drift detected" ELSE "">>)

\* Faulty variant of SupplierRecord: the rows without a supplier are counted
\* into every supplier's group.  SupplierNeverMissing tells the two apart.
SupplierRecordWithUnnamed(df, supplier, run_id, run_ts) ==
    LET subset == SelectSeq(df, LAMBDA r :
                      r.supplier = Some(supplier) \/ IsNull(r.supplier))
        n == Len(subset)
        miss_rrp == Len(SelectSeq(subset, LAMBDA r : IsNull(r.rrp)))
        miss_sup == Len(SelectSeq(subset, LAMBDA r : IsNull(r.supplier)))
        neg_qty == Len(SelectSeq(subset, LAMBDA r : NotNull(r.qty) /\ Val(r.qty) < 0))
        outliers == OutlierCount(subset)
        drift_flag == \E i \in 1..n : subset[i].drift_flag
    IN  [run_id |-> run_id,
         run_timestamp |-> isoformat(run_ts),
         supplier |-> supplier,
         score |-> Round2(SupplierScoreN(n, miss_rrp, miss_sup, neg_qty,
                                         outliers, drift_flag), n),
         missing_rrp_pct |-> Round2(100 * miss_rrp, n),
         missing_supplier_pct |-> Round2(100 * miss_sup, n),
         negative_qty_pct |-> Round2(100 * neg_qty, n),
         extreme_price_pct |-> Round2(100 * outliers, n),
         supplier_drift_flag |-> drift_flag,
         notes |-> JoinNotes(SupplierNotes(n, miss_rrp, neg_qty, outliers,
                                             drift_flag))]

SupplierRecord(df, supplier, run_id, run_ts) ==
    LET subset == SelectSeq(df, LAMBDA r : r.supplier = Some(supplier))
        n == Len(subset)
        miss_rrp == Len(SelectSeq(subset, LAMBDA r : IsNull(r.rrp)))
        miss_sup == Len(SelectSeq(subset, LAMBDA r : IsNull(r.supplier)))
        neg_qty == Len(SelectSeq(subset, LAMBDA r : NotNull(r.qty) /\ Val(r.qty) < 0))
        outliers == OutlierCount(subset)
        drift_flag == \E i \in 1..n : subset[i].drift_flag
    IN  [run_id |-> run_id,
         run_timestamp |-> isoformat(run_ts),
         supplier |-> supplier,
         score |-> Round2(SupplierScoreN(n, miss_rrp, miss_sup, neg_qty,
                                         outliers, drift_flag), n),
         missing_rrp_pct |-> Round2(100 * miss_rrp, n),
         missing_supplier_pct |-> Round2(100 * miss_sup, n),
         negative_qty_pct |-> Round2(100 * neg_qty, n),
         extreme_price_pct |-> Round2(100 * outliers, n),
         supplier_drift_flag |-> drift_flag,
         notes |-> JoinNotes(SupplierNotes(n, miss_rrp, neg_qty, outliers,
                                             drift_flag))]

\* Faulty variant of SupplierResults: the loop is left after its first
\* supplier.  OneRecordPerSupplier tells the two apart.
SupplierResultsFirstOnly(sales_df, run_id, run_ts) ==
    LET df == compute_supplier_drift(WithUnitPrice(sales_df))
        suppliers == DropNaUnique(Column(df, "supplier"))
    IN  [k \in 1..Min2(1, Len(suppliers)) |->
            SupplierRecord(df, suppliers[k], run_id, run_ts)]

\* the results list built by the loop over suppliers (lines 46-102)
SupplierResults(sales_df, run_id, run_ts) ==
    LET df == compute_supplier_drift(WithUnitPrice(sales_df))
        suppliers == DropNaUnique(Column(df, "supplier"))
    IN  [k \in 1..Len(suppliers) |->
            SupplierRecord(df, suppliers[k], run_id, run_ts)]

----------------------------------------------------------------------------
(* Floats that may be undefined, and the order of text keys                *)

\* A float cell is NaN (<<>>), a finite value <<v>>, or an infinity
\* <<sign, 0>> (numpy divides by zero without raising).
NaN == <<>>
Inf(sign) == <<sign, 0>>
IsFinite(c) == Len(c) = 1

\* round(num/den, 2) as a float cell, for any integer den
RoundRatio(num, den) ==
    IF den = 0
    THEN IF num = 0 THEN NaN ELSE Inf(IF num < 0 THEN -1 ELSE 1)
    ELSE IF den < 0 THEN Some(Round2(-num, -den))
    ELSE Some(Round2(num, den))

\* The texts of the model in Python's str order; groupby sorts its keys.
Collation ==
    <<"A", "Acme", "B", "BIDCO Africa", "Bidco Oil", "C", "Food", "Home", "Oils",
      "SKU1", "SKU2", "SKU3", "Zed">>

StrRank(t) == CHOOSE i \in 1..Len(Collation) : Collation[i] = t

\* the values x of a finite set of pairs <<rank, x>>, by ascending rank
RECURSIVE SortedByRank(_)
SortedByRank(P) ==
    IF P = {} THEN <<>>
    ELSE LET m == CHOOSE p \in P : \A q \in P : p[1] <= q[1]
         IN  <<m[2]>> \o SortedByRank(P \ {m})

\* Series.nunique(): the number of distinct present values
NUnique(cells) ==
    Cardinality({Val(cells[i]) : i \in {j \in 1..Len(cells) : NotNull(cells[j])}})

SumCol(df, f) == SumSeq([i \in 1..Len(df) |-> Val(df[i][f])])

----------------------------------------------------------------------------
(* compute_promo_metrics: the per-item records                             *)

\* Faulty variant of PromoFrame: a price of exactly 0.9 x RRP counts as promo
\* (<= for <).  PromoPartitions tells the two apart.
PromoFrameInclusive(sales_df) ==
    LET den == UnitDen(sales_df)
        df == SelectSeq(WithUnitPrice(sales_df), LAMBDA r :
                  NotNull(r.rrp) /\ NotNull(r.qty) /\ NotNull(r.total))
    IN  [i \in 1..Len(df) |->
            [store |-> df[i].store, item |-> df[i].item,
             desc |-> df[i].desc,
             supplier |-> df[i].supplier, qty |-> df[i].qty,
             total |-> df[i].total, rrp |-> df[i].rrp,
             unit_price |-> df[i].unit_price,
             is_promo |-> NotNull(df[i].unit_price)
                          /\ 10 * Val(df[i].unit_price) <= 9 * Val(df[i].rrp) * den]]

\* Faulty variant of PromoFrame: rows without a unit price are dropped with
\* the rows lacking RRP, quantity or total, as the price-index job does.
\* IdleRowsAreBaseline tells the two apart.
PromoFramePricedOnly(sales_df) ==
    LET den == UnitDen(sales_df)
        df == SelectSeq(WithUnitPrice(sales_df), LAMBDA r :
                  /\ NotNull(r.rrp) /\ NotNull(r.qty) /\ NotNull(r.total)
                  /\ NotNull(r.unit_price))
    IN  [i \in 1..Len(df) |->
            [store |-> df[i].store, item |-> df[i].item,
             desc |-> df[i].desc,
             supplier |-> df[i].supplier, qty |-> df[i].qty,
             total |-> df[i].total, rrp |-> df[i].rrp,
             unit_price |-> df[i].unit_price,
             is_promo |-> NotNull(df[i].unit_price)
                          /\ 10 * Val(df[i].unit_price) < 9 * Val(df[i].rrp) * den]]

\* lines 37-38: rows lacking RRP, Quantity or Total Sales are dropped, and
\* is_promo = unit_price < 0.9 * RRP (False for a NaN unit price)
PromoFrame(sales_df) ==
    LET den == UnitDen(sales_df)
        df == SelectSeq(WithUnitPrice(sales_df), LAMBDA r :
                  NotNull(r.rrp) /\ NotNull(r.qty) /\ NotNull(r.total))
    IN  [i \in 1..Len(df) |->
            [store |-> df[i].store, item |-> df[i].item,
             desc |-> df[i].desc,
             supplier |-> df[i].supplier, qty |-> df[i].qty,
             total |-> df[i].total, rrp |-> df[i].rrp,
             unit_price |-> df[i].unit_price,
             is_promo |-> NotNull(df[i].unit_price)
                          /\ 10 * Val(df[i].unit_price) < 9 * Val(df[i].rrp) * den]]

\* Faulty variant of PromoRecord: the uplift is taken relative to the promo
\* mean quantity instead of the baseline mean.
\* UpliftDefinedForPositiveBaseline tells the two apart.
PromoRecordOverPromo(group, sku, den) ==
    LET promo == SelectSeq(group, LAMBDA r : r.is_promo)
        base == SelectSeq(group, LAMBDA r : ~r.is_promo)
        base_priced == SelectSeq(base, LAMBDA r : NotNull(r.unit_price))
        base_qty == SumCol(base, "qty")
        promo_qty == SumCol(promo, "qty")
        promo_stores == NUnique(Column(promo, "store"))
        total_stores == NUnique(Column(group, "store"))
    IN  [Item_Code |-> sku,
         Description |-> group[1].desc,
         Supplier |-> group[1].supplier,
         Promo_Uplift_pct |->
             IF base_qty > 0
             THEN RoundRatio(100 * (promo_qty * Len(base) - base_qty * Len(promo)),
                             Len(base) * promo_qty)
             ELSE NaN,
         Promo_Coverage_pct |->
             IF total_stores > 0 THEN Round2(100 * promo_stores, total_stores) ELSE 0,
         Promo_Price_Impact_pct |->
             RoundRatio(100 * SumCol(promo, "unit_price"), den * SumCol(promo, "rrp")),
         Baseline_Avg_Price |->
             IF base_priced = <<>> THEN NaN
             ELSE RoundRatio(SumCol(base_priced, "unit_price"), den * Len(base_priced)),
         Promo_Avg_Price |->
             RoundRatio(SumCol(promo, "unit_price"), den * Len(promo))]

\* Faulty variant of PromoRecord: the price impact takes the mean unit price
\* of all the item's priced rows instead of its promo rows.
\* PriceImpactAtMostNinety tells the two apart.
PromoRecordAllPrices(group, sku, den) ==
    LET promo == SelectSeq(group, LAMBDA r : r.is_promo)
        base == SelectSeq(group, LAMBDA r : ~r.is_promo)
        base_priced == SelectSeq(base, LAMBDA r : NotNull(r.unit_price))
        base_qty == SumCol(base, "qty")
        promo_qty == SumCol(promo, "qty")
        promo_stores == NUnique(Column(promo, "store"))
        total_stores == NUnique(Column(group, "store"))
    IN  [Item_Code |-> sku,
         Description |-> group[1].desc,
         Supplier |-> group[1].supplier,
         Promo_Uplift_pct |->
             IF base_qty > 0
             THEN RoundRatio(100 * (promo_qty * Len(base) - base_qty * Len(promo)),
                             Len(promo) * base_qty)
             ELSE NaN,
         Promo_Coverage_pct |->
             IF total_stores > 0 THEN Round2(100 * promo_stores, total_stores) ELSE 0,
         Promo_Price_Impact_pct |->
             RoundRatio(100 * Len(promo) * (SumCol(promo, "unit_price")
                                            + SumCol(base_priced, "unit_price")),
                        den * SumCol(promo, "rrp")
                            * (Len(promo) + Len(base_priced))),
         Baseline_Avg_Price |->
             IF base_priced = <<>> THEN NaN
             ELSE RoundRatio(SumCol(base_priced, "unit_price"), den * Len(base_priced)),
         Promo_Avg_Price |->
             RoundRatio(SumCol(promo, "unit_price"), den * Len(promo))]

PromoRecord(group, sku, den) ==
    LET promo == SelectSeq(group, LAMBDA r : r.is_promo)
        base == SelectSeq(group, LAMBDA r : ~r.is_promo)
        base_priced == SelectSeq(base, LAMBDA r : NotNull(r.unit_price))
        base_qty == SumCol(base, "qty")
        promo_qty == SumCol(promo, "qty")
        promo_stores == NUnique(Column(promo, "store"))
        total_stores == NUnique(Column(group, "store"))
    IN  [Item_Code |-> sku,
         Description |-> group[1].desc,
         Supplier |-> group[1].supplier,
         Promo_Uplift_pct |->
             IF base_qty > 0
             THEN RoundRatio(100 * (promo_qty * Len(base) - base_qty * Len(promo)),
                             Len(promo) * base_qty)
             ELSE NaN,
         Promo_Coverage_pct |->
             IF total_stores > 0 THEN Round2(100 * promo_stores, total_stores) ELSE 0,
         Promo_Price_Impact_pct |->
             RoundRatio(100 * SumCol(promo, "unit_price"), den * SumCol(promo, "rrp")),
         Baseline_Avg_Price |->
             IF base_priced = <<>> THEN NaN
             ELSE RoundRatio(SumCol(base_priced, "unit_price"), den * Len(base_priced)),
         Promo_Avg_Price |->
             RoundRatio(SumCol(promo, "unit_price"), den * Len(promo))]

\* sku_groups (lines 40-69): one record per item code, in key order, for
\* the items with both a promo and a baseline row
PromoResults(sales_df) ==
    LET df == PromoFrame(sales_df)
        den == UnitDen(sales_df)
        skus == SortedByRank({<<StrRank(Val(df[i].item)), Val(df[i].item)>> :
                                i \in {j \in 1..Len(df) : NotNull(df[j].item)}})
        Group(sku) == SelectSeq(df, LAMBDA r : r.item = Some(sku))
        kept == SelectSeq(skus, LAMBDA sku :
                    (\E i \in 1..Len(df) : df[i].item = Some(sku) /\ df[i].is_promo)
                    /\ (\E i \in 1..Len(df) : df[i].item = Some(sku) /\ ~df[i].is_promo))
    IN  [k \in 1..Len(kept) |-> PromoRecord(Group(kept[k]), kept[k], den)]

----------------------------------------------------------------------------
(* compute_price_index: the per-group records                              *)

\* Faulty variant of ContainsBidco: the match is made on the name as spelled,
\* without lower().  OneRecordPerComparedCategory tells the two apart.
ContainsBidcoAsSpelled(supplier) == supplier \in {"Bidco Oil"}

\* Supplier.str.lower().str.contains("bidco")
ContainsBidco(supplier) == supplier \in {"BIDCO Africa", "Bidco Oil"}

\* line 36: rows lacking unit price, RRP or supplier are dropped
PriceFrame(sales_df) ==
    SelectSeq(WithUnitPrice(sales_df), LAMBDA r :
        NotNull(r.unit_price) /\ NotNull(r.rrp) /\ NotNull(r.supplier))

\* Faulty variant of PriceRecord: the index is guarded against a zero
\* competitor average only (!= 0 for > 0).  RatiosFollowFormulas tells the
\* two apart.
PriceRecordNonZeroGuard(group, key, den) ==
    LET bidco == SelectSeq(group, LAMBDA r : ContainsBidco(Val(r.supplier)))
        competitors == SelectSeq(group, LAMBDA r : ~ContainsBidco(Val(r.supplier)))
        bidco_sum == SumCol(bidco, "unit_price")
        competitor_sum == SumCol(competitors, "unit_price")
        rrp_sum == SumCol(bidco, "rrp")
    IN  [Store_Name |-> key[1],
         Sub_Department |-> key[2],
         Section |-> key[3],
         Bidco_Avg_Unit_Price |-> RoundRatio(bidco_sum, den * Len(bidco)),
         Competitor_Avg_Unit_Price |->
             RoundRatio(competitor_sum, den * Len(competitors)),
         Price_Index |->
             IF competitor_sum # 0
             THEN RoundRatio(100 * bidco_sum * Len(competitors),
                             Len(bidco) * competitor_sum)
             ELSE NaN,
         Bidco_Avg_RRP |-> RoundRatio(rrp_sum, Len(bidco)),
         Bidco_vs_RRP_Discount |->
             IF rrp_sum > 0 THEN RoundRatio(100 * bidco_sum, den * rrp_sum) ELSE NaN]

PriceRecord(group, key, den) ==
    LET bidco == SelectSeq(group, LAMBDA r : ContainsBidco(Val(r.supplier)))
        competitors == SelectSeq(group, LAMBDA r : ~ContainsBidco(Val(r.supplier)))
        bidco_sum == SumCol(bidco, "unit_price")
        competitor_sum == SumCol(competitors, "unit_price")
        rrp_sum == SumCol(bidco, "rrp")
    IN  [Store_Name |-> key[1],
         Sub_Department |-> key[2],
         Section |-> key[3],
         Bidco_Avg_Unit_Price |-> RoundRatio(bidco_sum, den * Len(bidco)),
         Competitor_Avg_Unit_Price |->
             RoundRatio(competitor_sum, den * Len(competitors)),
         Price_Index |->
             IF competitor_sum > 0
             THEN RoundRatio(100 * bidco_sum * Len(competitors),
                             Len(bidco) * competitor_sum)
             ELSE NaN,
         Bidco_Avg_RRP |-> RoundRatio(rrp_sum, Len(bidco)),
         Bidco_vs_RRP_Discount |->
             IF rrp_sum > 0 THEN RoundRatio(100 * bidco_sum, den * rrp_sum) ELSE NaN]

KeyRank(key) ==
    (StrRank(key[1]) * (Len(Collation) + 1) + StrRank(key[2]))
        * (Len(Collation) + 1) + StrRank(key[3])

\* results (lines 38-62): one record per (store, sub-department, section)
\* group, in key order, for the groups with both a Bidco and a competitor row
PriceResults(sales_df) ==
    LET df == PriceFrame(sales_df)
        den == UnitDen(sales_df)
        KeyOf(r) == <<Val(r.store), Val(r.subdept), Val(r.section)>>
        Keyed(r) == NotNull(r.store) /\ NotNull(r.subdept) /\ NotNull(r.section)
        keys == SortedByRank({<<KeyRank(KeyOf(df[i])), KeyOf(df[i])>> :
                                i \in {j \in 1..Len(df) : Keyed(df[j])}})
        Group(key) == SelectSeq(df, LAMBDA r : Keyed(r) /\ KeyOf(r) = key)
        kept == SelectSeq(keys, LAMBDA key :
                    (\E i \in 1..Len(Group(key)) :
                        ContainsBidco(Val(Group(key)[i].supplier)))
                    /\ (\E i \in 1..Len(Group(key)) :
                        ~ContainsBidco(Val(Group(key)[i].supplier))))
    IN  [k \in 1..Len(kept) |-> PriceRecord(Group(kept[k]), kept[k], den)]

\* results_df["Price_Index"].mean(), NaN skipped, as a float cell holding
\* <<sum of hundredths, count>>; NaN when no group has an index
AvgIndex(results) ==
    LET defined == SelectSeq(results, LAMBDA r : IsFinite(r.Price_Index))
    IN  IF defined = <<>> THEN NaN
        ELSE <<SumSeq([i \in 1..Len(defined) |-> Val(defined[i].Price_Index)]),
               Len(defined)>>

\* Faulty variant of overall_position: the thresholds are met at exactly 105
\* and exactly 95 (>= and <= for > and <).  PositionFollowsMean tells the two
\* apart.
overall_position_inclusive(avg_index) ==
    IF avg_index # NaN /\ avg_index[1] >= 10500 * avg_index[2] THEN "Premium"
    ELSE IF avg_index # NaN /\ avg_index[1] <= 9500 * avg_index[2] THEN "Discounted"
    ELSE "Near-Market"

\* lines 86-90: comparisons with NaN are False
overall_position(avg_index) ==
    IF avg_index # NaN /\ avg_index[1] > 10500 * avg_index[2] THEN "Premium"
    ELSE IF avg_index # NaN /\ avg_index[1] < 9500 * avg_index[2] THEN "Discounted"
    ELSE "Near-Market"

----------------------------------------------------------------------------
(* Inputs                                                                  *)

Oils == Some("Oils")
Food == Some("Food")

\* sales rows: store, item, description, supplier, quantity, total, RRP
BidcoAtRrp == Row(Some("A"), Some("SKU1"), Some("Oil 1L"), Some("Bidco Oil"),
                  Some(1), Some(10), Some(10), Oils, Food)
AcmeDiscounted == Row(Some("A"), Some("SKU1"), Some("Oil 1L"), Some("Acme"),
                      Some(2), Some(16), Some(10), Oils, Food)
Unlabelled == Row(Some("A"), Some("SKU2"), Some("Soap"), Null,
                  Some(1), Some(10), Null, Oils, Food)
Returned == Row(Some("B"), Some("SKU2"), Some("Soap"), Some("Acme"),
                Some(-1), Some(-50), Some(10), Oils, Food)
NothingSold == Row(Some("B"), Some("SKU1"), Some("Oil 1L"), Some("BIDCO Africa"),
                   Some(0), Some(0), Some(10), Oils, Food)
NoStore == Row(Null, Some("SKU3"), Some("Salt"), Some("Zed"),
               Some(1), Some(10), Some(10), Oils, Food)
AcmeAtRrp == Row(Some("A"), Some("SKU2"), Some("Soap"), Some("Acme"),
                 Some(1), Some(10), Some(10), Oils, Food)
Orphan == Row(Null, Some("SKU3"), Some("Salt"), Null,
              Some(1), Some(10), Some(10), Oils, Food)

\* a refund booked as a negative amount on a positive quantity
Refunded == Row(Some("A"), Some("SKU1"), Some("Oil 1L"), Some("Bidco Oil"),
                Some(1), Some(-10), Some(10), Oils, Food)

RowPool ==
    <<BidcoAtRrp, AcmeDiscounted, Unlabelled, Returned, NothingSold, NoStore,
      AcmeAtRrp, Refunded>>

\* longest generated sales relation
MaxRows == 4

\* Every non-empty sales relation of up to MaxRows rows of the pool, rows
\* repeated or not, laid out in pool order or in the reverse of it.
Picks(k) ==
    {f \in [1..k -> 1..Len(RowPool)] : \A i \in 1..(k - 1) : f[i] <= f[i + 1]}

Frames ==
    UNION {{[i \in 1..k |-> RowPool[f[i]]] : f \in Picks(k)}
           \cup {[i \in 1..k |-> RowPool[f[k + 1 - i]]] : f \in Picks(k)} :
           k \in 1..MaxRows}

\* One Acme soap sale of one unit in a store, with or without an RRP
LedgerRow(store, total, rrp) ==
    Row(Some(store), Some("SKU2"), Some("Soap"), Some("Acme"),
        Some(1), Some(total), rrp, Oils, Food)

\* A ledger that sits on the note thresholds: store A has 10 rows, 2 of them
\* without RRP; store B has 10 rows, 1 of them without RRP (exactly 10%);
\* store C has 20 rows, 1 of them at five times the price of the others
\* (exactly 5% outliers).
Ledger ==
    [i \in 1..40 |->
        IF i <= 10 THEN LedgerRow("A", 10, IF i <= 2 THEN Null ELSE Some(10))
        ELSE IF i <= 20 THEN LedgerRow("B", 10, IF i = 11 THEN Null ELSE Some(10))
        ELSE LedgerRow("C", IF i = 21 THEN 50 ELSE 10, Some(10))]

\* a listed line of which nothing was sold
Unsold == Row(Some("A"), Some("SKU1"), Some("Oil 1L"), Some("Acme"),
              Some(0), Some(0), Some(10), Oils, Food)

\* A store whose oil shelf has three sales at RRP, one discounted sale and
\* one line of which nothing was sold.
Stocktake == <<BidcoAtRrp, BidcoAtRrp, Unsold, BidcoAtRrp, AcmeDiscounted>>

\* One sale of the oil line in a store, under a supplier's name
OilSale(store, supplier, qty, total, rrp) ==
    Row(Some(store), Some("SKU1"), Some("Oil 1L"), Some(supplier),
        Some(qty), Some(total), Some(rrp), Oils, Food)

\* a competitor's sale at exactly nine tenths of the RRP beside a discounted
\* one
Markdown == <<OilSale("A", "Acme", 1, 9, 10), AcmeDiscounted>>

\* ten units at RRP and fifteen units at a discount
Bulk == <<OilSale("A", "Bidco Oil", 10, 100, 10), OilSale("A", "Acme", 15, 120, 10)>>

\* more oil returned than sold at full price, beside a discounted sale
NetReturns == <<OilSale("A", "Acme", -2, -20, 10), BidcoAtRrp, AcmeDiscounted>>

\* a discount of a hair more than a tenth of a large RRP, beside a sale at RRP
HairCut ==
    <<OilSale("A", "Acme", 1, 89999, 100000), OilSale("A", "Bidco Oil", 1, 100000, 100000)>>

\* the focal supplier at 95 and at 105 against a competitor at 100
Shelf95 == <<OilSale("A", "Bidco Oil", 1, 95, 100), OilSale("A", "Acme", 1, 100, 100)>>
Shelf105 == <<OilSale("A", "Bidco Oil", 1, 105, 100), OilSale("A", "Acme", 1, 100, 100)>>

\* the focal supplier against a competitor whose only sale is a refund
CompetitorRefund == <<BidcoAtRrp, OilSale("A", "Acme", 1, -10, 10)>>

\* the focal supplier spelled in capitals, beside a competitor
Capitals == <<OilSale("A", "BIDCO Africa", 1, 10, 10), AcmeAtRrp>>

\* the focal supplier and a competitor in one store, in different
\* sub-departments
TwoAisles ==
    <<BidcoAtRrp,
      Row(Some("A"), Some("SKU2"), Some("Soap"), Some("Acme"),
          Some(1), Some(10), Some(10), Some("Home"), Food)>>

\* the focal supplier's line listed with an RRP of zero, beside a competitor
Unlisted == <<OilSale("A", "Bidco Oil", 1, 10, 0), AcmeAtRrp>>

\* the focal supplier at 90 in one store and at 110 in another, against a
\* competitor at 100 in both
TwoStores ==
    <<OilSale("A", "Bidco Oil", 1, 90, 100), OilSale("A", "Acme", 1, 100, 100),
      OilSale("B", "Bidco Oil", 1, 110, 100), OilSale("B", "Acme", 1, 100, 100)>>

\* One unit of oil returned to store A under Acme's name, with no RRP on
\* record
UnpricedReturn(total) ==
    Row(Some("A"), Some("SKU1"), Some("Oil 1L"), Some("Acme"),
        Some(-1), Some(total), Null, Oils, Food)

\* A store and a supplier with every signal raised: no RRP on any row, every
\* quantity negative, one price far from the others, and the item also sold
\* by another supplier elsewhere.
Worst ==
    <<UnpricedReturn(-10), UnpricedReturn(-10), UnpricedReturn(-10),
      UnpricedReturn(-10), UnpricedReturn(-50), OilSale("B", "Bidco Oil", 1, 10, 10)>>

Examples ==
    {Ledger, Stocktake, Markdown, Bulk, NetReturns, HairCut, Shelf95, Shelf105,
     CompetitorRefund, Capitals, TwoAisles, Unlisted, TwoStores, Worst}

\* the sales relations the ingestion may load
Datasets ==
    {<<>>,
     <<Orphan>>,
     <<BidcoAtRrp, AcmeDiscounted, AcmeAtRrp>>,
     <<AcmeAtRrp, Returned>>,
     <<Unlabelled, NoStore>>}

\* job invocations and reloads of the sales relation in one behaviour
MaxCalls == 2
MaxLoads == 1

----------------------------------------------------------------------------
(* The jobs, their relations and their scratch views                       *)

Jobs ==
    {"compute_store_health", "compute_supplier_health",
     "compute_promo_metrics", "compute_price_index"}

IsHealthJob(job) == job \in {"compute_store_health", "compute_supplier_health"}

TableOf(job) ==
    CASE job = "compute_store_health" -> "store_health_scores"
      [] job = "compute_supplier_health" -> "supplier_health_scores"
      [] job = "compute_promo_metrics" -> "promo_summary_scores"
      [] job = "compute_price_index" -> "price_index_scores"

ViewOf(job) ==
    CASE job = "compute_store_health" -> "tmp_health"
      [] job = "compute_supplier_health" -> "tmp_sup_health"
      [] job = "compute_promo_metrics" -> "tmp_promo"
      [] job = "compute_price_index" -> "tmp_price"

NoDataText(job) ==
    CASE job = "compute_store_health" -> "No data available in sales table."
      [] job = "compute_supplier_health" -> "No data found in sales table."
      [] job = "compute_promo_metrics" -> "No data found in sales table."
      [] job = "compute_price_index" -> "No data available in sales table"

NoResultText(job) ==
    CASE job = "compute_promo_metrics" -> "No significant promo patterns detected."
      [] job = "compute_price_index" -> "No comparable categories found."

OutTables == {TableOf(j) : j \in Jobs}
ViewNames == {ViewOf(j) : j \in Jobs}

\* Whether DuckDB parses the job's INSERT ... SELECT.  In the promo job the
\* select list names Promo_Uplift_%, Promo_Coverage_%, Promo_Price_Impact_%
\* without quotes: "%" is the modulo operator and "," follows it, so the
\* statement is a syntax error whatever the view holds.
InsertParses(job) == job # "compute_promo_metrics"

Threads == {"main", "worker"}

VARIABLES
    sales,      \* the sales relation: a sequence of rows
    tables,     \* output relation -> [exists, rows]
    views,      \* per connection: view name -> registered frame or NULL
    conn,       \* db._conn: 0 is None, else the handle
    opened,     \* number of init_duckdb() executions
    uuids,      \* number of uuid4() tokens drawn (tokens are 1, 2, ...)
    clock,      \* the latest instant datetime.now() returned
    pc,         \* thread -> where it is in its job
    loc,        \* thread -> the job's local variables
    ret,        \* thread -> what its latest invocation returned or raised
    last,       \* job -> what its latest invocation returned or raised
    stale,      \* jobs not invoked since the sales relation last changed
    lenient,    \* whether this DuckDB build lets register() take a
                \* DataFrame that has no columns
    calls,      \* job invocations so far
    loads       \* reloads of the sales relation so far

vars ==
    <<sales, tables, views, conn, opened, uuids, clock, pc, loc, ret, last,
      stale, lenient, calls, loads>>

World ==
    [sales |-> sales, tables |-> tables, views |-> views, conn |-> conn,
     opened |-> opened, uuids |-> uuids, clock |-> clock, pc |-> pc,
     loc |-> loc, ret |-> ret, last |-> last, stale |-> stale,
     lenient |-> lenient, calls |-> calls, loads |-> loads]

Becomes(w) ==
    /\ sales' = w.sales
    /\ tables' = w.tables
    /\ views' = w.views
    /\ conn' = w.conn
    /\ opened' = w.opened
    /\ uuids' = w.uuids
    /\ clock' = w.clock
    /\ pc' = w.pc
    /\ loc' = w.loc
    /\ ret' = w.ret
    /\ last' = w.last
    /\ stale' = w.stale
    /\ lenient' = w.lenient
    /\ calls' = w.calls
    /\ loads' = w.loads

\* What an invocation hands its caller.  kind is "success", "error"
\* ({"error": text}), "message" ({"message": text}) or "raised" (an
\* exception of class text left the job); "none" before any invocation.
Payload(job, kind, text, run_id, run_timestamp, summary, body) ==
    [job |-> job, kind |-> kind, text |-> text, run_id |-> run_id,
     run_timestamp |-> run_timestamp, summary |-> summary, body |-> body]

NoPayload == Payload("", "none", "", 0, Null, Null, <<>>)

NoLocals ==
    [job |-> "", conn |-> 0, df |-> <<>>, frame |-> <<>>, run_id |-> 0,
     run_ts |-> 0, tick |-> 0, overlapped |-> FALSE]

NoViews == [v \in ViewNames |-> Null]

InitWorld(df, spent) ==
    /\ sales = df
    /\ tables = [t \in OutTables |-> [exists |-> FALSE, rows |-> <<>>]]
    /\ views = <<>>
    /\ conn = 0
    /\ opened = 0
    /\ uuids = 0
    /\ clock = 0
    /\ pc = [t \in Threads |-> "idle"]
    /\ loc = [t \in Threads |-> NoLocals]
    /\ ret = [t \in Threads |-> NoPayload]
    /\ last = [j \in Jobs |-> NoPayload]
    /\ stale = Jobs
    /\ lenient \in BOOLEAN
    /\ calls = spent
    /\ loads = 0

----------------------------------------------------------------------------
(* Storage operations                                                      *)

\* Faulty variant of ensure_table: CREATE OR REPLACE TABLE.  AppendOnly tells
\* the two apart.
ensure_table_replacing(tabs, t) ==
    [tabs EXCEPT ![t] = [exists |-> TRUE, rows |-> <<>>]]

\* Faulty variant of ensure_table: one schema script creates every output
\* relation.  DifferentJobsDoNotInterfere tells the two apart.
ensure_every_table(tabs, t) ==
    [u \in OutTables |->
        IF tabs[u].exists THEN tabs[u] ELSE [exists |-> TRUE, rows |-> <<>>]]

\* CREATE TABLE IF NOT EXISTS: creates the relation empty when absent and
\* leaves an existing one as it is
ensure_table(tabs, t) ==
    IF tabs[t].exists THEN tabs
    ELSE [tabs EXCEPT ![t] = [exists |-> TRUE, rows |-> <<>>]]

\* The row INSERT ... SELECT stores for a row of the view.  The health jobs
\* hand run_timestamp over as ISO text, which the TIMESTAMP column casts;
\* the other two hand over the zoned datetime itself, kept as its instant.
PersistRow(job, r) ==
    IF IsHealthJob(job)
    THEN [r EXCEPT !.run_timestamp = CastTimestamp(@)]
    ELSE r

Persisted(job, frame) == [i \in 1..Len(frame) |-> PersistRow(job, frame[i])]

\* Faulty variant of insert_select: the statement stops after the first row
\* of the view.  WholeBatchOrNothing tells the two apart.
insert_select_head(tabs, job, frame) ==
    [tabs EXCEPT ![TableOf(job)].rows =
         @ \o SubSeq(Persisted(job, frame), 1, 1)]

\* Faulty variant of insert_select: the batch takes the place of the rows
\* the relation held.  RerunRepeats tells the two apart.
insert_select_replacing(tabs, job, frame) ==
    [tabs EXCEPT ![TableOf(job)].rows = Persisted(job, frame)]

\* INSERT INTO <table> SELECT ... FROM <view>: appends one row per row of
\* the view, in one statement
insert_select(tabs, job, frame) ==
    [tabs EXCEPT ![TableOf(job)].rows = @ \o Persisted(job, frame)]

\* results_df["run_id"] = run_id; results_df["run_timestamp"] = run_ts
StampPromo(results, run_id, run_ts) ==
    [i \in 1..Len(results) |->
        [Item_Code |-> results[i].Item_Code,
         Description |-> results[i].Description,
         Supplier |-> results[i].Supplier,
         Promo_Uplift_pct |-> results[i].Promo_Uplift_pct,
         Promo_Coverage_pct |-> results[i].Promo_Coverage_pct,
         Promo_Price_Impact_pct |-> results[i].Promo_Price_Impact_pct,
         Baseline_Avg_Price |-> results[i].Baseline_Avg_Price,
         Promo_Avg_Price |-> results[i].Promo_Avg_Price,
         run_id |-> run_id, run_timestamp |-> run_ts]]

StampPrice(results, run_id, run_ts) ==
    [i \in 1..Len(results) |->
        [Store_Name |-> results[i].Store_Name,
         Sub_Department |-> results[i].Sub_Department,
         Section |-> results[i].Section,
         Bidco_Avg_Unit_Price |-> results[i].Bidco_Avg_Unit_Price,
         Competitor_Avg_Unit_Price |-> results[i].Competitor_Avg_Unit_Price,
         Price_Index |-> results[i].Price_Index,
         Bidco_Avg_RRP |-> results[i].Bidco_Avg_RRP,
         Bidco_vs_RRP_Discount |-> results[i].Bidco_vs_RRP_Discount,
         run_id |-> run_id, run_timestamp |-> run_ts]]

----------------------------------------------------------------------------
(* One invocation of a job, statement by statement.  Each step maps the    *)
(* world before it to the world after it; t is the calling thread.         *)

Return(w, t, payload) ==
    [w EXCEPT !.pc[t] = "idle",
              !.loc[t] = NoLocals,
              !.ret[t] = payload,
              !.last[payload.job] = payload,
              !.stale = @ \ {payload.job}]

\* an exception leaves the job: the caller gets no payload
Raise(w, t, exception) ==
    Return(w, t, Payload(w.loc[t].job, "raised", exception, 0, Null, Null, <<>>))

\* the presentation layer calls the job on thread t.  tick is how far the
\* clock has moved when the job reads it.
\* overlapped records, for the invocation's whole life, whether another
\* invocation of the same job was under way at any time during it.
Call(w, t, job, tick) ==
    LET same == {u \in Threads \ {t} : w.pc[u] # "idle" /\ w.loc[u].job = job}
    IN  [w EXCEPT !.pc[t] = "get_db",
                  !.loc = [u \in Threads |->
                             IF u = t
                             THEN [NoLocals EXCEPT !.job = job, !.tick = tick,
                                                   !.overlapped = same # {}]
                             ELSE IF u \in same
                             THEN [w.loc[u] EXCEPT !.overlapped = TRUE]
                             ELSE w.loc[u]],
                  !.calls = @ + 1]

\* get_db, "if _conn is None"
get_db(w, t) ==
    [w EXCEPT !.pc[t] = IF w.conn = 0 THEN "init_duckdb" ELSE "get_db_return"]

\* get_db, "_conn = init_duckdb()": a connection of its own views to the
\* one database file
init_duckdb(w, t) ==
    [w EXCEPT !.opened = @ + 1,
              !.conn = w.opened + 1,
              !.views = Append(@, NoViews),
              !.pc[t] = "get_db_return"]

\* get_db, "return _conn"
get_db_return(w, t) ==
    [w EXCEPT !.loc[t].conn = w.conn, !.pc[t] = "select"]

\* Faulty variant of select_sales: no df.empty exit.  EmptySalesIsSoftError
\* tells the two apart.
select_sales_unguarded(w, t) ==
    [w EXCEPT !.loc[t].df = w.sales, !.pc[t] = "compute"]

\* df = conn.execute("SELECT * FROM sales").fetchdf(), and the df.empty exit
select_sales(w, t) ==
    IF w.sales = <<>>
    THEN Return(w, t, Payload(w.loc[t].job, "error", NoDataText(w.loc[t].job),
                              0, Null, Null, <<>>))
    ELSE [w EXCEPT !.loc[t].df = w.sales, !.pc[t] = "compute"]

\* the health jobs from the derived column to insert_df: the run stamp is
\* drawn before the loop, the relation is ensured after it
compute_health(w, t) ==
    LET job == w.loc[t].job
        run_id == w.uuids + 1
        run_ts == w.clock + w.loc[t].tick
        results == IF job = "compute_store_health"
                   THEN StoreResults(w.loc[t].df, run_id, run_ts)
                   ELSE SupplierResults(w.loc[t].df, run_id, run_ts)
    IN  [w EXCEPT !.uuids = run_id,
                  !.clock = run_ts,
                  !.tables = ensure_table(@, TableOf(job)),
                  !.loc[t].run_id = run_id,
                  !.loc[t].run_ts = run_ts,
                  !.loc[t].frame = results,
                  !.pc[t] = "register"]

\* Faulty variant of compute_results: the relation is ensured and the run
\* stamp drawn before the results are looked at.  NoResultIsMessage tells the
\* two apart.
compute_results_stamped_first(w, t) ==
    LET job == w.loc[t].job
        results == IF job = "compute_promo_metrics"
                   THEN PromoResults(w.loc[t].df)
                   ELSE PriceResults(w.loc[t].df)
        run_id == w.uuids + 1
        run_ts == w.clock + w.loc[t].tick
        stamped == [w EXCEPT !.uuids = run_id,
                             !.clock = run_ts,
                             !.tables = ensure_table(@, TableOf(job))]
    IN  IF results = <<>>
        THEN Return(stamped, t, Payload(job, "message", NoResultText(job),
                                        0, Null, Null, <<>>))
        ELSE [stamped EXCEPT !.loc[t].run_id = run_id,
                             !.loc[t].run_ts = run_ts,
                             !.loc[t].frame =
                                 IF job = "compute_promo_metrics"
                                 THEN StampPromo(results, run_id, run_ts)
                                 ELSE StampPrice(results, run_id, run_ts),
                             !.pc[t] = "register"]

\* the promo and price-index jobs from the derived column to the stamped
\* results_df: an empty result returns before the relation is ensured and
\* before a run stamp is drawn
compute_results(w, t) ==
    LET job == w.loc[t].job
        results == IF job = "compute_promo_metrics"
                   THEN PromoResults(w.loc[t].df)
                   ELSE PriceResults(w.loc[t].df)
        run_id == w.uuids + 1
        run_ts == w.clock + w.loc[t].tick
    IN  IF results = <<>>
        THEN Return(w, t, Payload(job, "message", NoResultText(job),
                                  0, Null, Null, <<>>))
        ELSE [w EXCEPT !.uuids = run_id,
                       !.clock = run_ts,
                       !.tables = ensure_table(@, TableOf(job)),
                       !.loc[t].run_id = run_id,
                       !.loc[t].run_ts = run_ts,
                       !.loc[t].frame =
                           IF job = "compute_promo_metrics"
                           THEN StampPromo(results, run_id, run_ts)
                           ELSE StampPrice(results, run_id, run_ts),
                       !.pc[t] = "register"]

compute(w, t) ==
    IF IsHealthJob(w.loc[t].job) THEN compute_health(w, t)
    ELSE compute_results(w, t)

\* conn.register(<view>, frame): binds the name, replacing what it named.
\* pd.DataFrame([]) has no columns; DuckDB either refuses it here or binds
\* a view that has no columns.
register(w, t) ==
    IF w.loc[t].frame = <<>> /\ ~w.lenient
    THEN Raise(w, t, "InvalidInputException")
    ELSE [w EXCEPT !.views[w.loc[t].conn][ViewOf(w.loc[t].job)] =
                       Some(w.loc[t].frame),
                   !.pc[t] = "insert"]

\* conn.execute("INSERT INTO <table> SELECT ... FROM <view>"): the rows are
\* those the view names when the statement runs
insert(w, t) ==
    LET job == w.loc[t].job
        view == w.views[w.loc[t].conn][ViewOf(job)]
    IN  IF ~InsertParses(job) THEN Raise(w, t, "ParserException")
        ELSE IF IsNull(view) THEN Raise(w, t, "CatalogException")
        ELSE IF Val(view) = <<>> THEN Raise(w, t, "BinderException")
        ELSE [w EXCEPT !.tables = insert_select(@, job, Val(view)),
                       !.pc[t] = "unregister"]

\* round(insert_df["score"].mean(), 2)
AvgScore(frame) ==
    Round2(SumSeq([i \in 1..Len(frame) |-> frame[i].score]), 100 * Len(frame))

\* results_df.sort_values("Promo_Uplift_%", ascending=False).head(5): the
\* records by falling uplift, NaN uplifts last, the first five of them.
\* Records of equal uplift are kept in frame order here; pandas' default
\* sort does not promise an order among them.
TopSkus(frame) ==
    LET n == Len(frame)
        Ahead(i, k) ==
            LET a == frame[i].Promo_Uplift_pct
                b == frame[k].Promo_Uplift_pct
            IN  \/ IsFinite(a) /\ ~IsFinite(b)
                \/ IsFinite(a) /\ IsFinite(b) /\ Val(a) > Val(b)
                \/ IsFinite(a) = IsFinite(b)
                   /\ (IsFinite(a) => Val(a) = Val(b)) /\ i < k
        Place(i) == 1 + Cardinality({k \in 1..n : Ahead(k, i)})
        sorted == [p \in 1..n |-> frame[CHOOSE i \in 1..n : Place(i) = p]]
    IN  SubSeq(sorted, 1, Min2(5, n))

Summary(job, frame) ==
    CASE job = "compute_store_health" ->
            [avg_score |-> AvgScore(frame), total_stores |-> Len(frame)]
      [] job = "compute_supplier_health" ->
            [avg_score |-> AvgScore(frame), total_suppliers |-> Len(frame)]
      [] job = "compute_promo_metrics" ->
            [sku_count |-> Len(frame),
             top_skus |-> TopSkus(frame),
             top_performing_sku |-> TopSkus(frame)[1].Description]
      [] job = "compute_price_index" ->
            [avg_price_index |->
                 IF AvgIndex(frame) = NaN THEN NaN
                 ELSE Some(Round2(AvgIndex(frame)[1], 100 * AvgIndex(frame)[2])),
             position |-> overall_position(AvgIndex(frame)),
             stores_evaluated |-> Len(frame)]

\* conn.unregister(<view>) (no error when nothing has the name), the
\* summary and the return of the success structure
unregister(w, t) ==
    LET job == w.loc[t].job
        unbound == [w EXCEPT !.views[w.loc[t].conn][ViewOf(job)] = Null]
    IN  Return(unbound, t,
               Payload(job, "success", "", w.loc[t].run_id,
                       Some(isoformat(w.loc[t].run_ts)),
                       Some(Summary(job, w.loc[t].frame)), w.loc[t].frame))

Step(w, t) ==
    CASE w.pc[t] = "get_db" -> get_db(w, t)
      [] w.pc[t] = "init_duckdb" -> init_duckdb(w, t)
      [] w.pc[t] = "get_db_return" -> get_db_return(w, t)
      [] w.pc[t] = "select" -> select_sales(w, t)
      [] w.pc[t] = "compute" -> compute(w, t)
      [] w.pc[t] = "register" -> register(w, t)
      [] w.pc[t] = "insert" -> insert(w, t)
      [] w.pc[t] = "unregister" -> unregister(w, t)

\* the invocation run from where it stands to its return, with no other
\* thread in between
RECURSIVE RunToReturn(_, _)
RunToReturn(w, t) ==
    IF w.pc[t] = "idle" THEN w ELSE RunToReturn(Step(w, t), t)

\* load_sales_data(get_db()): CREATE OR REPLACE TABLE sales from the sheet
LoadSales(w, df) ==
    LET opening == w.conn = 0
    IN  [w EXCEPT !.opened = IF opening THEN @ + 1 ELSE @,
                  !.conn = IF opening THEN w.opened + 1 ELSE @,
                  !.views = IF opening THEN Append(@, NoViews) ELSE @,
                  !.sales = df,
                  !.stale = IF df = w.sales THEN @ ELSE Jobs,
                  !.loads = @ + 1]

----------------------------------------------------------------------------
(* Spec: invocations one after another, each from call to return, and      *)
(* reloads of the sales relation between them                              *)

Quiet == \A t \in Threads : pc[t] = "idle"

Invoke(job) ==
    \E tick \in {0, 1} :
        Becomes(RunToReturn(Call(World, "main", job, tick), "main"))

compute_store_health ==
    /\ calls < MaxCalls /\ Quiet
    /\ Invoke("compute_store_health")

compute_supplier_health ==
    /\ calls < MaxCalls /\ Quiet
    /\ Invoke("compute_supplier_health")

compute_promo_metrics ==
    /\ calls < MaxCalls /\ Quiet
    /\ Invoke("compute_promo_metrics")

compute_price_index ==
    /\ calls < MaxCalls /\ Quiet
    /\ Invoke("compute_price_index")

load_sales_data ==
    /\ loads < MaxLoads /\ Quiet
    /\ \E df \in Datasets : Becomes(LoadSales(World, df))

Init == \E df \in Datasets : InitWorld(df, 0)

Next ==
    \/ compute_store_health
    \/ compute_supplier_health
    \/ compute_promo_metrics
    \/ compute_price_index
    \/ load_sales_data

Spec == Init /\ [][Next]_vars

----------------------------------------------------------------------------
(* SpecCalc: one invocation of one job on any generated sales relation     *)

InitCalc == \E df \in Frames \cup Examples : InitWorld(df, MaxCalls - 1)

NextCalc ==
    \/ compute_store_health
    \/ compute_supplier_health
    \/ compute_promo_metrics
    \/ compute_price_index

SpecCalc == InitCalc /\ [][NextCalc]_vars

----------------------------------------------------------------------------
(* SpecConc: invocations on two threads of the presentation layer's pool,  *)
(* interleaved statement by statement over the shared handle               *)

CallJob(t) ==
    /\ pc[t] = "idle" /\ calls < MaxCalls
    /\ \E job \in Jobs, tick \in {0, 1} :
          Becomes(Call(World, t, job, tick))

GetDb(t) == pc[t] = "get_db" /\ Becomes(get_db(World, t))
InitDuckdb(t) == pc[t] = "init_duckdb" /\ Becomes(init_duckdb(World, t))
GetDbReturn(t) == pc[t] = "get_db_return" /\ Becomes(get_db_return(World, t))
SelectSales(t) == pc[t] = "select" /\ Becomes(select_sales(World, t))
Compute(t) == pc[t] = "compute" /\ Becomes(compute(World, t))
Register(t) == pc[t] = "register" /\ Becomes(register(World, t))
Insert(t) == pc[t] = "insert" /\ Becomes(insert(World, t))
Unregister(t) == pc[t] = "unregister" /\ Becomes(unregister(World, t))

\* the sales relations the interleaved invocations run on: an empty one, one
\* whose store and supplier are all NULL, and one every job has results for
Workloads == {<<>>, <<Orphan>>, <<BidcoAtRrp, AcmeDiscounted, AcmeAtRrp>>}

InitConc == \E df \in Workloads : InitWorld(df, 0)

NextConc ==
    \E t \in Threads :
        \/ CallJob(t)
        \/ GetDb(t)
        \/ InitDuckdb(t)
        \/ GetDbReturn(t)
        \/ SelectSales(t)
        \/ Compute(t)
        \/ Register(t)
        \/ Insert(t)
        \/ Unregister(t)

SpecConc == InitConc /\ [][NextConc]_vars

----------------------------------------------------------------------------
(* Properties                                                              *)

HealthJobs == {"compute_store_health", "compute_supplier_health"}

IsPrefix(s, t) == Len(s) <= Len(t) /\ SubSeq(t, 1, Len(s)) = s

\* the rows relation T gains in a step
Added(T) ==
    SubSeq(tables'[T].rows, Len(tables[T].rows) + 1, Len(tables'[T].rows))

\* the rows of relation T that carry run id id, in relation order
RowsStamped(tabs, T, id) == SelectSeq(tabs[T].rows, LAMBDA r : r.run_id = id)

\* a batch without its run stamp: entities and metric values only
Unstamped(frame) ==
    [i \in 1..Len(frame) |->
        [frame[i] EXCEPT !.run_id = 0, !.run_timestamp = 0]]

\* a score, in hundredths, inside [0, 100]
InBounds(score) == 0 <= score /\ score <= 10000

\* C1: on every non-empty sales relation, every score of compute_store_health
\* and of compute_supplier_health, in the returned list and in the persisted
\* rows alike, lies in [0, 100].
ScoresWithinBounds ==
    \A j \in HealthJobs :
        /\ \A i \in 1..Len(last[j].body) : InBounds(last[j].body[i].score)
        /\ \A i \in 1..Len(tables[TableOf(j)].rows) :
               InBounds(tables[TableOf(j)].rows[i].score)

\* C1 happens: the store job has returned and persisted a batch in which
\* one store keeps the full score and another has lost part of it.
ScoresWitness ==
    LET got == last["compute_store_health"]
    IN  /\ got.kind = "success"
        /\ tables["store_health_scores"].rows =
               Persisted("compute_store_health", got.body)
        /\ \E i, k \in 1..Len(got.body) :
               got.body[i].score = 10000 /\ got.body[k].score < 10000

\* C2: all rows one invocation appends carry one run_id and one
\* run_timestamp, those returned to the caller (the timestamp as the same
\* instant), and the run_id is in no output relation before the invocation.
OneFreshStampPerBatch ==
    [][calls' # calls =>
          \A T \in OutTables : \A i \in 1..Len(Added(T)) :
              /\ ret'["main"].kind = "success"
              /\ Added(T)[i].run_id = ret'["main"].run_id
              /\ Added(T)[i].run_timestamp =
                     CastTimestamp(Val(ret'["main"].run_timestamp))
              /\ \A U \in OutTables : \A k \in 1..Len(tables[U].rows) :
                     tables[U].rows[k].run_id # Added(T)[i].run_id]_vars

\* C2 happens: a batch of two or more rows, all under the returned run id,
\* stands behind rows of an earlier run.
StampWitness ==
    \E j \in Jobs :
        LET rows == tables[TableOf(j)].rows
            got == last[j]
            n == Len(got.body)
        IN  /\ got.kind = "success" /\ n >= 2 /\ Len(rows) > n
            /\ \A i \in 1..n : rows[Len(rows) - n + i].run_id = got.run_id
            /\ \A i \in 1..(Len(rows) - n) : rows[i].run_id # got.run_id

\* C3: a job invoked on a sales relation of zero rows returns {"error": ...}
\* and leaves every output relation as it was, uncreated ones uncreated.
EmptySalesIsSoftError ==
    [][(calls' # calls /\ sales = <<>>) =>
          /\ ret'["main"].kind = "error"
          /\ ret'["main"].text = NoDataText(ret'["main"].job)
          /\ tables' = tables]_vars

\* C3 happens: a job has answered "no data" on emptied sales while an
\* earlier batch stays in one relation and another relation is still absent.
EmptySalesWitness ==
    /\ sales = <<>>
    /\ ret["main"].kind = "error"
    /\ \E T \in OutTables : tables[T].rows # <<>>
    /\ ~tables[TableOf(ret["main"].job)].exists

\* C4 as claimed: no invocation of a job ends with an exception leaving it.
JobsNeverRaise == \A t \in Threads : ret[t].kind # "raised"

\* C5: an invocation, its CREATE TABLE IF NOT EXISTS included, keeps every
\* row of every output relation in place and unchanged; it only adds rows.
AppendOnly ==
    [][\A T \in OutTables :
          /\ IsPrefix(tables[T].rows, tables'[T].rows)
          /\ tables[T].exists => tables'[T].exists]_vars

\* C5 happens: a job has run again on a relation that held a batch, without
\* appending, and the batch is still there.
AppendOnlyWitness ==
    \E j \in Jobs :
        /\ last[j].kind \in {"raised", "message", "error"}
        /\ calls >= 2
        /\ tables[TableOf(j)].rows # <<>>

\* C6: an invocation either returns a success structure and has appended
\* its whole batch, one row per reported entity, or returns no success
\* structure and has appended nothing.
WholeBatchOrNothing ==
    [][calls' # calls =>
          LET got == ret'["main"]
          IN  \A T \in OutTables :
                  tables'[T].rows =
                      tables[T].rows \o
                          (IF got.kind = "success" /\ T = TableOf(got.job)
                           THEN Persisted(got.job, got.body)
                           ELSE <<>>)]_vars

\* C6 happens: one job has succeeded with a batch of two or more rows, all
\* persisted, and another has failed with its relation created and empty.
WholeBatchWitness ==
    \E j, k \in Jobs :
        /\ last[j].kind = "success" /\ Len(last[j].body) >= 2
        /\ tables[TableOf(j)].rows = Persisted(j, last[j].body)
        /\ last[k].kind = "raised"
        /\ tables[TableOf(k)] = [exists |-> TRUE, rows |-> <<>>]

\* C7: a job run again with the sales relation unchanged since its last
\* successful run succeeds with the same entities and metric values under a
\* different run id, and appends its batch behind the rows already there.
RerunRepeats ==
    [][(/\ calls' # calls
        /\ ret'["main"].job \notin stale
        /\ last[ret'["main"].job].kind = "success") =>
          LET new == ret'["main"]
              old == last[new.job]
              T == TableOf(new.job)
          IN  /\ new.kind = "success"
              /\ Unstamped(new.body) = Unstamped(old.body)
              /\ new.summary = old.summary
              /\ new.run_id # old.run_id
              /\ tables'[T].rows = tables[T].rows \o Persisted(new.job, new.body)
              /\ RowsStamped(tables', T, old.run_id) =
                     Persisted(new.job, old.body)]_vars

\* C7 happens: a relation holds two batches of the same sales relation, equal
\* but for their run stamps.
RerunWitness ==
    \E j \in Jobs :
        LET rows == tables[TableOf(j)].rows
            n == Len(last[j].body)
        IN  /\ last[j].kind = "success" /\ n >= 1 /\ loads = 0
            /\ Len(rows) = 2 * n
            /\ Unstamped(SubSeq(rows, 1, n)) = Unstamped(SubSeq(rows, n + 1, 2 * n))
            /\ rows[1].run_id # rows[n + 1].run_id

\* C8 as claimed: whatever the interleaving, the relation holds for every
\* invocation that returned success exactly the rows it computed under its
\* run id, once, and no invocation fails on the view another one dropped.
EachInvocationKeepsItsBatch ==
    \A t \in Threads :
        /\ ret[t].kind = "success" =>
               RowsStamped(tables, TableOf(ret[t].job), ret[t].run_id) =
                   Persisted(ret[t].job, ret[t].body)
        /\ ret[t].text # "CatalogException"

\* C9 as claimed: init_duckdb runs at most once and every get_db call
\* returns the one handle.
SingleHandle ==
    /\ opened <= 1
    /\ \A t, u \in Threads :
           (loc[t].conn # 0 /\ loc[u].conn # 0) => loc[t].conn = loc[u].conn

\* what the caller sees of a payload apart from the run stamp
Shown(payload) ==
    [kind |-> payload.kind, text |-> payload.text,
     summary |-> payload.summary, body |-> Unstamped(payload.body)]

\* the invocation thread t is in, run by itself from call to return
Alone(t) ==
    RunToReturn(
        Call([World EXCEPT !.pc = [u \in Threads |-> "idle"],
                           !.loc = [u \in Threads |-> NoLocals]],
             t, loc[t].job, loc[t].tick),
        t).ret[t]

\* C10: a step of a job changes neither the sales relation nor another
\* job's output relation and only appends, under its own run id, to its own;
\* and an invocation that no invocation of the same job overlapped returns
\* what it returns when run by itself, its relation holding exactly its batch.
DifferentJobsDoNotInterfere ==
    [][\A t \in Threads : pc'[t] # pc[t] =>
          LET j == IF pc[t] = "idle" THEN loc'[t].job ELSE loc[t].job
              own == TableOf(j)
          IN  /\ sales' = sales
              /\ \A T \in OutTables \ {own} : tables'[T] = tables[T]
              /\ IsPrefix(tables[own].rows, tables'[own].rows)
              /\ (pc'[t] = "idle" /\ ~loc[t].overlapped) =>
                     LET got == ret'[t]
                     IN  /\ Shown(got) = Shown(Alone(t))
                         /\ RowsStamped(tables', own, loc[t].run_id) =
                                (IF got.kind = "success"
                                 THEN Persisted(j, got.body) ELSE <<>>)]_vars

\* C10 happens: the store job and the supplier job have both run with their
\* statements interleaved, and each relation holds its own job's batch.
DifferentJobsWitness ==
    /\ pc["main"] = "unregister" /\ pc["worker"] = "unregister"
    /\ loc["main"].job = "compute_store_health"
    /\ loc["worker"].job = "compute_supplier_health"
    /\ tables["store_health_scores"].rows =
           Persisted("compute_store_health", loc["main"].frame)
    /\ tables["supplier_health_scores"].rows =
           Persisted("compute_supplier_health", loc["worker"].frame)

----------------------------------------------------------------------------
(* One record per entity                                                   *)

\* the distinct non-null values of column f
Distinct(df, f) ==
    {Val(df[i][f]) : i \in {k \in 1..Len(df) : NotNull(df[k][f])}}

\* C11: when some row has a store name, compute_store_health returns the
\* success structure with the run id it drew and a store_health list of
\* exactly one record per distinct non-null store name; total_stores is that
\* number, above zero; rows without a store name give no record; and exactly
\* those records are appended to store_health_scores.
OneRecordPerStore ==
    [][(/\ calls' # calls
        /\ ret'["main"].job = "compute_store_health"
        /\ Distinct(sales, "store") # {}) =>
          LET got == ret'["main"]
              names == Distinct(sales, "store")
          IN  /\ got.kind = "success"
              /\ got.run_id = uuids' /\ uuids' = uuids + 1
              /\ Len(got.body) = Cardinality(names)
              /\ {got.body[i].store_name : i \in 1..Len(got.body)} = names
              /\ Val(got.summary).total_stores = Cardinality(names)
              /\ Val(got.summary).total_stores > 0
              /\ Added("store_health_scores") =
                     Persisted("compute_store_health", got.body)
              /\ Len(Added("store_health_scores")) =
                     Val(got.summary).total_stores]_vars

\* C11 happens: the store job has scored two stores from sales that also
\* hold a second row of one store and a row without a store name.
OneRecordPerStoreWitness ==
    LET got == last["compute_store_health"]
    IN  /\ got.kind = "success"
        /\ Len(got.body) = 2
        /\ Len(sales) = 4
        /\ \E i \in 1..Len(sales) : IsNull(sales[i].store)
        /\ Len(tables["store_health_scores"].rows) = 2

\* C12: when some row has a supplier, compute_supplier_health returns the
\* success structure with the run id it drew and a supplier_health list of
\* exactly one record per distinct non-null supplier name; total_suppliers
\* is that number, above zero; rows without a supplier give no record; and
\* exactly those records are appended to supplier_health_scores.
OneRecordPerSupplier ==
    [][(/\ calls' # calls
        /\ ret'["main"].job = "compute_supplier_health"
        /\ Distinct(sales, "supplier") # {}) =>
          LET got == ret'["main"]
              names == Distinct(sales, "supplier")
          IN  /\ got.kind = "success"
              /\ got.run_id = uuids' /\ uuids' = uuids + 1
              /\ Len(got.body) = Cardinality(names)
              /\ {got.body[i].supplier : i \in 1..Len(got.body)} = names
              /\ Val(got.summary).total_suppliers = Cardinality(names)
              /\ Val(got.summary).total_suppliers > 0
              /\ Added("supplier_health_scores") =
                     Persisted("compute_supplier_health", got.body)
              /\ Len(Added("supplier_health_scores")) =
                     Val(got.summary).total_suppliers]_vars

\* C12 happens: the supplier job has scored three suppliers from sales in
\* which one row has no supplier.
OneRecordPerSupplierWitness ==
    LET got == last["compute_supplier_health"]
    IN  /\ got.kind = "success"
        /\ Len(got.body) = 3
        /\ Len(sales) = 4
        /\ \E i \in 1..Len(sales) : IsNull(sales[i].supplier)
        /\ Len(tables["supplier_health_scores"].rows) = 3

----------------------------------------------------------------------------
(* Rows of quantity zero                                                   *)

\* the rows whose quantity is not zero
Sold(df) == SelectSeq(df, LAMBDA r : r.qty # Some(0))

\* the rows of a frame whose column f holds v
GroupOf(df, f, v) == SelectSeq(df, LAMBDA r : r[f] = Some(v))

\* C13: a row of quantity 0 has a null unit price, and no unit-price
\* statistic sees it: with the zero-quantity rows taken out of the sales
\* relation, every store's and supplier's quartiles and outlier count, every
\* item's mean promo and baseline unit prices, and every price-index record
\* are the same; the jobs' returned outlier shares and price averages are
\* those of the rows with a quantity.
ZeroQuantityHasNoPrice ==
    LET df == WithUnitPrice(sales)
        sold == WithUnitPrice(Sold(sales))
        den == UnitDen(sales)
        stores == last["compute_store_health"]
        prices == last["compute_price_index"]
    IN  /\ \A i \in 1..Len(sales) :
               sales[i].qty = Some(0) => IsNull(df[i].unit_price)
        /\ \A f \in {"store", "supplier"} : \A v \in Distinct(sales, f) :
               /\ Quartiles(GroupOf(df, f, v)) = Quartiles(GroupOf(sold, f, v))
               /\ OutlierCount(GroupOf(df, f, v)) =
                      OutlierCount(GroupOf(sold, f, v))
        /\ \A sku \in Distinct(sales, "item") :
               LET all == GroupOf(PromoFrame(sales), "item", sku)
                   kept == GroupOf(PromoFrame(Sold(sales)), "item", sku)
               IN  kept # <<>> =>
                       \A x \in {"Baseline_Avg_Price", "Promo_Avg_Price",
                                 "Promo_Price_Impact_pct"} :
                           PromoRecord(all, sku, den)[x] =
                               PromoRecord(kept, sku, den)[x]
        /\ PriceResults(sales) = PriceResults(Sold(sales))
        /\ stores.kind = "success" =>
               \A i \in 1..Len(stores.body) :
                   LET name == stores.body[i].store_name
                   IN  stores.body[i].extreme_price_pct =
                           Round2(100 * OutlierCount(GroupOf(sold, "store", name)),
                                  Len(GroupOf(df, "store", name)))
        /\ prices.kind = "success" =>
               /\ Len(prices.body) = Len(PriceResults(Sold(sales)))
               /\ \A i \in 1..Len(prices.body) :
                      \A x \in {"Bidco_Avg_Unit_Price", "Competitor_Avg_Unit_Price",
                                "Price_Index", "Bidco_vs_RRP_Discount"} :
                          prices.body[i][x] = PriceResults(Sold(sales))[i][x]

\* C13 happens: the price-index job has compared a store's shelf on which a
\* competitor's line of quantity 0 stands beside priced competitor and
\* focal rows.
ZeroQuantityWitness ==
    LET prices == last["compute_price_index"]
    IN  /\ prices.kind = "success"
        /\ \E i, k \in 1..Len(sales) :
               /\ sales[i].qty = Some(0)
               /\ sales[i].store = Some(prices.body[1].Store_Name)
               /\ ~ContainsBidco(Val(sales[i].supplier))
               /\ sales[k].store = sales[i].store
               /\ sales[k].supplier = sales[i].supplier
               /\ sales[k].qty # Some(0)

----------------------------------------------------------------------------
(* Supplier drift                                                          *)

\* the item codes sold under two or more distinct supplier names anywhere
\* in the relation
Drifting(df) ==
    {c \in Distinct(df, "item") :
        Cardinality(Distinct(GroupOf(df, "item", c), "supplier")) >= 2}

\* the notes texts that hold the drift flag
DriftNotes ==
    {JoinNotes(Appended(<<IF a THEN "RRP missing >10%" ELSE "",
                          IF b THEN "Negative quantity present" ELSE "",
                          IF c THEN "High price variance" ELSE "",
                          "Supplier drift detected">>)) : a, b, c \in BOOLEAN}

\* C14: drift is judged over the whole sales relation: a supplier record has
\* supplier_drift_flag true, and "Supplier drift detected" in its notes,
\* exactly when the supplier's rows include a row of an item code that has
\* two or more distinct supplier names; an item code with one distinct
\* supplier flags nobody.
DriftFlagsWholeRelation ==
    LET got == last["compute_supplier_health"]
    IN  got.kind = "success" =>
            \A i \in 1..Len(got.body) :
                LET rows == GroupOf(sales, "supplier", got.body[i].supplier)
                    drifts == Distinct(rows, "item") \cap Drifting(sales) # {}
                IN  /\ got.body[i].supplier_drift_flag = drifts
                    /\ (got.body[i].notes \in DriftNotes) = drifts

\* C14 happens: the supplier job has flagged two suppliers that share an
\* item code and left unflagged a supplier whose item code is only theirs.
DriftWitness ==
    LET got == last["compute_supplier_health"]
    IN  /\ got.kind = "success"
        /\ \E i, k, l \in 1..Len(got.body) :
               /\ i # k
               /\ got.body[i].supplier_drift_flag
               /\ got.body[k].supplier_drift_flag
               /\ ~got.body[l].supplier_drift_flag
               /\ got.body[i].notes \in DriftNotes
               /\ got.body[l].notes \notin DriftNotes

----------------------------------------------------------------------------
(* Ranges of the percentage fields                                         *)

\* a percentage, in hundredths, inside [0, 100]
IsShare(pct) == 0 <= pct /\ pct <= 10000

\* a float cell that is undefined or inside [0, 100]
IsShareIfDefined(cell) == IsFinite(cell) => IsShare(Val(cell))

HealthShares ==
    {"missing_rrp_pct", "missing_supplier_pct", "negative_qty_pct",
     "extreme_price_pct"}

\* the four shares of every health record, returned or persisted, lie in
\* [0, 100]
HealthSharesInRange ==
    \A j \in HealthJobs : \A x \in HealthShares :
        /\ \A i \in 1..Len(last[j].body) : IsShare(last[j].body[i][x])
        /\ \A i \in 1..Len(tables[TableOf(j)].rows) :
               IsShare(tables[TableOf(j)].rows[i][x])

\* the promo records an invocation of the promo job has computed from the
\* sales relation
PromoComputed ==
    IF last["compute_promo_metrics"].kind = "none" THEN <<>>
    ELSE PromoResults(sales)

\* C15, amended: missing_rrp_pct, missing_supplier_pct, negative_qty_pct and
\* extreme_price_pct of every health record, and Promo_Coverage_% of every
\* promo record, lie in [0, 100] for every sales relation.
SharesWithinBounds ==
    /\ HealthSharesInRange
    /\ \A i \in 1..Len(PromoComputed) : IsShare(PromoComputed[i].Promo_Coverage_pct)

\* C15 as claimed: Promo_Uplift_% and Promo_Price_Impact_% too lie in
\* [0, 100] whenever they are defined.
AllPercentagesWithinBounds ==
    /\ HealthSharesInRange
    /\ \A i \in 1..Len(PromoComputed) :
           /\ IsShare(PromoComputed[i].Promo_Coverage_pct)
           /\ IsShareIfDefined(PromoComputed[i].Promo_Uplift_pct)
           /\ IsShareIfDefined(PromoComputed[i].Promo_Price_Impact_pct)

\* C15 happens: the promo job has computed, for an item on promotion in one
\* of its two stores, a coverage of 50%, from sales in which a store has the
\* RRP missing in some but not all of its rows.
SharesWitness ==
    /\ \E i \in 1..Len(PromoComputed) :
           PromoComputed[i].Promo_Coverage_pct = 5000
    /\ \E s \in Distinct(sales, "store") :
           LET rows == GroupOf(sales, "store", s)
           IN  \E i, k \in 1..Len(rows) : IsNull(rows[i].rrp) /\ NotNull(rows[k].rrp)

\* C16 as claimed: in every price-index record, returned or persisted,
\* Price_Index and Bidco_vs_RRP_Discount are strictly positive whenever they
\* are defined, also when sales hold negative quantities or amounts.
RatiosArePositive ==
    LET got == last["compute_price_index"]
        rows == tables[TableOf("compute_price_index")].rows
        Positive(cell) == IsFinite(cell) => Val(cell) > 0
    IN  /\ \A i \in 1..Len(got.body) :
               /\ Positive(got.body[i].Price_Index)
               /\ Positive(got.body[i].Bidco_vs_RRP_Discount)
        /\ \A i \in 1..Len(rows) :
               /\ Positive(rows[i].Price_Index)
               /\ Positive(rows[i].Bidco_vs_RRP_Discount)

----------------------------------------------------------------------------
(* Nothing to report                                                       *)

\* row r is usable by the promo job and sells below nine tenths of its RRP
SellsOnPromo(r) ==
    /\ NotNull(r.rrp) /\ NotNull(r.qty) /\ NotNull(r.total)
    /\ Val(r.qty) # 0
    /\ IF Val(r.qty) > 0
       THEN 10 * Val(r.total) < 9 * Val(r.rrp) * Val(r.qty)
       ELSE 10 * Val(r.total) > 9 * Val(r.rrp) * Val(r.qty)

\* row r is usable by the promo job and does not sell on promo
SellsAtBaseline(r) ==
    /\ NotNull(r.rrp) /\ NotNull(r.qty) /\ NotNull(r.total)
    /\ ~SellsOnPromo(r)

\* some item code has a promo row and a baseline row
HasPromoPattern(df) ==
    \E i, k \in 1..Len(df) :
        /\ NotNull(df[i].item) /\ df[i].item = df[k].item
        /\ SellsOnPromo(df[i]) /\ SellsAtBaseline(df[k])

\* row r is usable by the price-index job and falls in a category
Comparable(r) ==
    /\ NotNull(r.qty) /\ NotNull(r.total) /\ Val(r.qty) # 0
    /\ NotNull(r.rrp) /\ NotNull(r.supplier)
    /\ NotNull(r.store) /\ NotNull(r.subdept) /\ NotNull(r.section)

\* some (store, sub-department, section) has a focal row and a competitor row
HasComparableCategory(df) ==
    \E i, k \in 1..Len(df) :
        /\ Comparable(df[i]) /\ Comparable(df[k])
        /\ df[i].store = df[k].store
        /\ df[i].subdept = df[k].subdept
        /\ df[i].section = df[k].section
        /\ Val(df[i].supplier) \in {"BIDCO Africa", "Bidco Oil"}
        /\ Val(df[k].supplier) \notin {"BIDCO Africa", "Bidco Oil"}

\* C17: on non-empty sales that give no result - the promo job finds no item
\* code with both a promo and a baseline row, the price-index job no category
\* with both a focal and a competitor row - the job returns {"message": text},
\* appends no row, creates no relation and draws no run id.
NoResultIsMessage ==
    [][(/\ calls' # calls
        /\ sales # <<>>
        /\ \/ /\ ret'["main"].job = "compute_promo_metrics"
              /\ ~HasPromoPattern(sales)
           \/ /\ ret'["main"].job = "compute_price_index"
              /\ ~HasComparableCategory(sales)) =>
          /\ ret'["main"].kind = "message"
          /\ ret'["main"].text =
                 (IF ret'["main"].job = "compute_promo_metrics"
                  THEN "No significant promo patterns detected."
                  ELSE "No comparable categories found.")
          /\ ret'["main"].run_id = 0
          /\ tables' = tables
          /\ uuids' = uuids]_vars

\* C17 happens: the price-index job has answered with its message on sales
\* whose focal rows and competitor rows lie in different stores, and no
\* relation exists and no run id has been drawn.
NoResultWitness ==
    /\ ret["main"].job = "compute_price_index"
    /\ ret["main"].kind = "message"
    /\ \E i, k \in 1..Len(sales) :
           /\ Comparable(sales[i]) /\ Comparable(sales[k])
           /\ Val(sales[i].supplier) \in {"BIDCO Africa", "Bidco Oil"}
           /\ Val(sales[k].supplier) \notin {"BIDCO Africa", "Bidco Oil"}
    /\ \A T \in OutTables : ~tables[T].exists
    /\ uuids = 0

----------------------------------------------------------------------------
(* The score formulas                                                      *)

\* the number of rows of a group with no value in column f
Missing(rows, f) == Len(SelectSeq(rows, LAMBDA r : IsNull(r[f])))

\* the number of rows of a group with a quantity below zero
Negative(rows) ==
    Len(SelectSeq(rows, LAMBDA r : NotNull(r.qty) /\ Val(r.qty) < 0))

\* C18 as claimed: a store's score is
\* max(0, 100 - (min(20, 20r) + min(20, 20s) + min(20, 20n) + min(20, 20o)))
\* rounded to 2 decimals, the RRP-missing and the supplier-missing penalty
\* each capped on its own before they are summed.
StorePenaltiesCappedApart ==
    LET got == last["compute_store_health"]
        df == WithUnitPrice(sales)
    IN  got.kind = "success" =>
            \A i \in 1..Len(got.body) :
                LET rows == GroupOf(df, "store", got.body[i].store_name)
                    n == Len(rows)
                    penalties ==
                        Min2(20 * n, 20 * Missing(rows, "rrp"))
                        + Min2(20 * n, 20 * Missing(rows, "supplier"))
                        + Min2(20 * n, 20 * Negative(rows))
                        + Min2(20 * n, 20 * OutlierCount(rows))
                IN  got.body[i].score = Round2(Max2(0, 100 * n - penalties), n)

\* what the claimed supplier formula takes as input: the group's size, its
\* counts of missing RRPs, missing suppliers, negative quantities and
\* outliers, and whether the group holds a row of a drifting item
SupplierGroup(name) ==
    LET rows == GroupOf(WithUnitPrice(sales), "supplier", name)
    IN  [n |-> Len(rows),
         miss_rrp |-> Missing(rows, "rrp"),
         miss_sup |-> Missing(rows, "supplier"),
         neg_qty |-> Negative(rows),
         outliers |-> OutlierCount(rows),
         drift |-> Distinct(rows, "item") \cap Drifting(sales) # {}]

\* C19: a supplier's score is
\* max(0, 100 - (min(20, 20(r + s)) + min(20, 20n) + min(20, 20o) + (10 if
\* drifting else 0))) rounded to 2 decimals, and two suppliers whose groups
\* differ in the drift flag only differ in score by exactly 10.
SupplierScoreFormula ==
    LET got == last["compute_supplier_health"]
    IN  got.kind = "success" =>
            /\ \A i \in 1..Len(got.body) :
                   LET g == SupplierGroup(got.body[i].supplier)
                       penalties ==
                           Min2(20 * g.n, 20 * (g.miss_rrp + g.miss_sup))
                           + Min2(20 * g.n, 20 * g.neg_qty)
                           + Min2(20 * g.n, 20 * g.outliers)
                           + (IF g.drift THEN 10 * g.n ELSE 0)
                   IN  got.body[i].score =
                           Round2(Max2(0, 100 * g.n - penalties), g.n)
            /\ \A i, k \in 1..Len(got.body) :
                   LET g == SupplierGroup(got.body[i].supplier)
                       h == SupplierGroup(got.body[k].supplier)
                   IN  (g.drift /\ ~h.drift /\ [g EXCEPT !.drift = FALSE] = h) =>
                           got.body[k].score - got.body[i].score = 1000

\* C19 happens: the supplier job has scored two suppliers whose groups are
\* alike in everything but drift, one of them at 100 and the other at 90.
SupplierScoreWitness ==
    LET got == last["compute_supplier_health"]
    IN  /\ got.kind = "success"
        /\ \E i, k \in 1..Len(got.body) :
               LET g == SupplierGroup(got.body[i].supplier)
                   h == SupplierGroup(got.body[k].supplier)
               IN  /\ g.drift /\ ~h.drift /\ [g EXCEPT !.drift = FALSE] = h
                   /\ got.body[i].score = 9000 /\ got.body[k].score = 10000

----------------------------------------------------------------------------
(* The store notes                                                         *)

\* the record a store-health run returned for a store
StoreRecordOf(got, name) ==
    got.body[CHOOSE i \in 1..Len(got.body) : got.body[i].store_name = name]

----------------------------------------------------------------------------
(* The promo partitions                                                    *)

\* the rows of item code c that sell on promo, and those that sell at
\* baseline
PromoRows(df, c) ==
    SelectSeq(df, LAMBDA r : r.item = Some(c) /\ SellsOnPromo(r))

BaselineRows(df, c) ==
    SelectSeq(df, LAMBDA r : r.item = Some(c) /\ SellsAtBaseline(r))

\* the item codes with a row in each partition
Promoted(df) ==
    {c \in Distinct(df, "item") : PromoRows(df, c) # <<>> /\ BaselineRows(df, c) # <<>>}

\* C21: the promo job puts a considered row in the promo partition exactly
\* when its unit price is strictly below 0.9 x its RRP, in the baseline
\* partition otherwise, and computes exactly one record for each item code
\* that has a row in both partitions and none for any other item code.
PromoPartitions ==
    last["compute_promo_metrics"].kind # "none" =>
        LET frame == PromoFrame(sales)
        IN  /\ \A i \in 1..Len(frame) : frame[i].is_promo = SellsOnPromo(frame[i])
            /\ \A i \in 1..Len(frame) : ~frame[i].is_promo = SellsAtBaseline(frame[i])
            /\ {PromoComputed[i].Item_Code : i \in 1..Len(PromoComputed)} =
                   Promoted(sales)
            /\ Len(PromoComputed) = Cardinality(Promoted(sales))

\* C21 happens: the promo job has computed a record for an item with a
\* discounted and a full-price row, and none for another item that has only
\* baseline rows.
PromoPartitionsWitness ==
    /\ Len(PromoComputed) = 1
    /\ \E c \in Distinct(sales, "item") \ Promoted(sales) :
           BaselineRows(sales, c) # <<>> /\ PromoRows(sales, c) = <<>>

----------------------------------------------------------------------------
(* The promo metrics                                                       *)

\* the sum of the quantities of some rows
Units(rows) == SumSeq([i \in 1..Len(rows) |-> Val(rows[i].qty)])

\* (mean promo quantity - mean baseline quantity) / mean baseline quantity
\* x 100, rounded to 2 decimals, for a baseline mean other than zero
UpliftOf(promo, base) ==
    RoundRatio(100 * (Units(promo) * Len(base) - Units(base) * Len(promo)),
               Len(promo) * Units(base))

\* C22 as claimed: every computed promo record has Promo_Uplift_% equal to
\* (mean promo quantity - mean baseline quantity) / mean baseline quantity
\* x 100 whenever the baseline mean quantity is not zero, and undefined only
\* when it is zero; baseline mean 10 and promo mean 15 give 50.0.
UpliftDefinedUnlessZeroBaseline ==
    /\ \A i \in 1..Len(PromoComputed) :
           LET promo == PromoRows(sales, PromoComputed[i].Item_Code)
               base == BaselineRows(sales, PromoComputed[i].Item_Code)
           IN  PromoComputed[i].Promo_Uplift_pct =
                   (IF Units(base) # 0 THEN UpliftOf(promo, base) ELSE NaN)
    /\ (sales = Bulk /\ PromoComputed # <<>>) =>
           PromoComputed[1].Promo_Uplift_pct = Some(5000)

\* C22, amended: every computed promo record has Promo_Uplift_% equal to
\* (mean promo quantity - mean baseline quantity) / mean baseline quantity
\* x 100 whenever the baseline mean quantity is above zero, and undefined
\* when it is zero or below; baseline mean 10 and promo mean 15 give 50.0.
UpliftDefinedForPositiveBaseline ==
    /\ \A i \in 1..Len(PromoComputed) :
           LET promo == PromoRows(sales, PromoComputed[i].Item_Code)
               base == BaselineRows(sales, PromoComputed[i].Item_Code)
           IN  PromoComputed[i].Promo_Uplift_pct =
                   (IF Units(base) > 0 THEN UpliftOf(promo, base) ELSE NaN)
    /\ (sales = Bulk /\ last["compute_promo_metrics"].kind # "none") =>
           /\ Len(PromoComputed) = 1
           /\ PromoComputed[1].Promo_Uplift_pct = Some(5000)

\* C22 happens: the promo job has computed the uplift of the item sold ten
\* at a time at RRP and fifteen at a time at a discount.
UpliftWitness ==
    /\ sales = Bulk
    /\ Len(PromoComputed) = 1
    /\ Units(BaselineRows(sales, "SKU1")) = 10
    /\ Units(PromoRows(sales, "SKU1")) = 15
    /\ PromoComputed[1].Promo_Uplift_pct = Some(5000)

----------------------------------------------------------------------------
(* The price-index partitions and ratios                                   *)

\* the supplier names of the sales relations that contain "bidco" in any
\* mix of capitals
FocalNames == {"BIDCO Africa", "Bidco Oil"}

\* the category of a row
CategoryOf(r) == <<Val(r.store), Val(r.subdept), Val(r.section)>>

\* the usable rows of a category sold by the focal supplier, and by others
FocalRows(df, key) ==
    SelectSeq(df, LAMBDA r :
        Comparable(r) /\ CategoryOf(r) = key /\ Val(r.supplier) \in FocalNames)

CompetitorRows(df, key) ==
    SelectSeq(df, LAMBDA r :
        Comparable(r) /\ CategoryOf(r) = key /\ Val(r.supplier) \notin FocalNames)

\* the categories that have usable rows
Categories(df) ==
    {CategoryOf(df[i]) : i \in {k \in 1..Len(df) : Comparable(df[k])}}

\* the categories with a focal and a competitor row
Compared(df) ==
    {key \in Categories(df) :
        FocalRows(df, key) # <<>> /\ CompetitorRows(df, key) # <<>>}

\* C23: the price-index job returns exactly one record for each (store,
\* sub-department, section) that has a row of a supplier whose name contains
\* "bidco" in any capitals and a row of another supplier, and no record for
\* a category that lacks either; with no such category it returns no record.
OneRecordPerComparedCategory ==
    LET got == last["compute_price_index"]
    IN  (got.kind # "none" /\ sales # <<>>) =>
            /\ got.kind = (IF Compared(sales) = {} THEN "message" ELSE "success")
            /\ {<<got.body[i].Store_Name, got.body[i].Sub_Department,
                  got.body[i].Section>> : i \in 1..Len(got.body)} =
                   Compared(sales)
            /\ Len(got.body) = Cardinality(Compared(sales))

\* C23 happens: the price-index job has returned one record, for a category
\* whose focal row carries the supplier name spelled in capitals.
ComparedCategoryWitness ==
    LET got == last["compute_price_index"]
    IN  /\ got.kind = "success"
        /\ Len(got.body) = 1
        /\ \E key \in Compared(sales) :
               \E i \in 1..Len(FocalRows(sales, key)) :
                   FocalRows(sales, key)[i].supplier = Some("BIDCO Africa")

\* the unit price of a usable row as a numerator over den
PriceOver(r, den) ==
    IF Val(r.qty) > 0 THEN Val(r.total) * (den \div Val(r.qty))
    ELSE (0 - Val(r.total)) * (den \div (0 - Val(r.qty)))

\* the sum of the unit prices of some usable rows, over den
PriceSum(rows, den) == SumSeq([i \in 1..Len(rows) |-> PriceOver(rows[i], den)])

\* the sum of the RRPs of some rows
RrpSum(rows) == SumSeq([i \in 1..Len(rows) |-> Val(rows[i].rrp)])

\* C24: every returned price-index record has Price_Index = focal average
\* unit price / competitor average unit price x 100 when the competitor
\* average is above 0, undefined when it is 0 or below; and
\* Bidco_vs_RRP_Discount = focal average unit price / focal average RRP x 100
\* when the focal average RRP is above 0, undefined otherwise; a focal
\* average of 95 against a competitor average of 100 gives 95.0.
RatiosFollowFormulas ==
    LET got == last["compute_price_index"]
        den == UnitDen(sales)
    IN  got.kind = "success" =>
            /\ \A i \in 1..Len(got.body) :
                   LET key == <<got.body[i].Store_Name, got.body[i].Sub_Department,
                                got.body[i].Section>>
                       focal == FocalRows(sales, key)
                       others == CompetitorRows(sales, key)
                   IN  /\ got.body[i].Price_Index =
                              (IF PriceSum(others, den) > 0
                               THEN RoundRatio(100 * PriceSum(focal, den) * Len(others),
                                               Len(focal) * PriceSum(others, den))
                               ELSE NaN)
                       /\ got.body[i].Bidco_vs_RRP_Discount =
                              (IF RrpSum(focal) > 0
                               THEN RoundRatio(100 * PriceSum(focal, den),
                                               den * RrpSum(focal))
                               ELSE NaN)
            /\ sales = Shelf95 => got.body[1].Price_Index = Some(9500)

\* C24 happens: the price-index job has returned an index of 95.0 for the
\* shelf where the focal supplier sells at 95 and the competitor at 100.
RatiosWitness ==
    LET got == last["compute_price_index"]
    IN  /\ got.kind = "success"
        /\ sales = Shelf95
        /\ got.body[1].Price_Index = Some(9500)
        /\ got.body[1].Bidco_vs_RRP_Discount = Some(9500)

\* the defined Price_Index values of some records, in hundredths
DefinedIndices(records) ==
    LET defined == SelectSeq(records, LAMBDA r : IsFinite(r.Price_Index))
    IN  [i \in 1..Len(defined) |-> Val(defined[i].Price_Index)]

\* C25: the position in the price-index summary follows from the mean of the
\* records' defined Price_Index alone: "Premium" exactly when the mean is
\* above 105, "Discounted" exactly when it is below 95, "Near-Market" in
\* every other case - a mean of exactly 95 or 105, or no defined index at
\* all; one of the three is always returned.
PositionFollowsMean ==
    LET got == last["compute_price_index"]
        indices == DefinedIndices(got.body)
        total == SumSeq(indices)
        k == Len(indices)
    IN  got.kind = "success" =>
            /\ Val(got.summary).position \in {"Premium", "Discounted", "Near-Market"}
            /\ Val(got.summary).position = "Premium" <=>
                   (k > 0 /\ total > 10500 * k)
            /\ Val(got.summary).position = "Discounted" <=>
                   (k > 0 /\ total < 9500 * k)

\* C25 happens: the price-index job has called two stores "Near-Market"
\* whose indices, 90.0 and 110.0, would alone be "Discounted" and "Premium".
PositionWitness ==
    LET got == last["compute_price_index"]
    IN  /\ got.kind = "success"
        /\ Len(got.body) = 2
        /\ got.body[1].Price_Index = Some(9000)
        /\ got.body[2].Price_Index = Some(11000)
        /\ Val(got.summary).position = "Near-Market"

----------------------------------------------------------------------------
(* The promo summary                                                       *)

\* record a ranks at least as high as record b by uplift, an undefined
\* uplift ranking below every defined one
RanksNoLower(a, b) ==
    \/ ~IsFinite(b.Promo_Uplift_pct)
    \/ /\ IsFinite(a.Promo_Uplift_pct)
       /\ Val(a.Promo_Uplift_pct) >= Val(b.Promo_Uplift_pct)

\* C26 as claimed: the promo job, on sales that give it records, returns a
\* success structure whose top_skus are min(5, sku_count) of the details, in
\* falling order of Promo_Uplift_%, no detail left out ranking above one
\* taken, and whose "Top performing SKU" insight names the first of them.
TopSkusLeadTheDetails ==
    LET got == last["compute_promo_metrics"]
    IN  (got.kind # "none" /\ Promoted(sales) # {}) =>
            /\ got.kind = "success"
            /\ LET top == Val(got.summary).top_skus
                   taken == {top[i] : i \in 1..Len(top)}
                   details == {got.body[i] : i \in 1..Len(got.body)}
               IN  /\ Len(top) = Min2(5, Val(got.summary).sku_count)
                   /\ Cardinality(taken) = Len(top)
                   /\ taken \subseteq details
                   /\ \A i, k \in 1..Len(top) : i < k => RanksNoLower(top[i], top[k])
                   /\ \A a \in taken : \A b \in details \ taken : RanksNoLower(a, b)
                   /\ Val(got.summary).top_performing_sku = top[1].Description

----------------------------------------------------------------------------
(* What never happens in a health score                                    *)

\* the rows that name a supplier
Supplied(df) == SelectSeq(df, LAMBDA r : NotNull(r.supplier))

\* C27: every supplier record has missing_supplier_pct 0.0, and rows without
\* a supplier are scored in no record: the records are those of the sales
\* relation with such rows taken out.
SupplierNeverMissing ==
    LET got == last["compute_supplier_health"]
    IN  got.kind = "success" =>
            /\ \A i \in 1..Len(got.body) : got.body[i].missing_supplier_pct = 0
            /\ \A i \in 1..Len(tables["supplier_health_scores"].rows) :
                   tables["supplier_health_scores"].rows[i].missing_supplier_pct = 0
            /\ Unstamped(got.body) = Unstamped(SupplierResults(Supplied(sales), 0, 0))

\* C27 happens: the supplier job has scored sales in which a row has no
\* supplier and no RRP; the one record, of the other rows' supplier, shows
\* nothing missing.
SupplierNeverMissingWitness ==
    LET got == last["compute_supplier_health"]
    IN  /\ got.kind = "success"
        /\ Len(got.body) = 1
        /\ \E i \in 1..Len(sales) : IsNull(sales[i].supplier) /\ IsNull(sales[i].rrp)
        /\ got.body[1].missing_supplier_pct = 0
        /\ got.body[1].missing_rrp_pct = 0
        /\ got.body[1].score = 10000

\* C28: the floor at 0 is never reached: every store score, returned or
\* persisted, is at least 40 and every supplier score at least 30.
ScoresAboveFloor ==
    /\ \A i \in 1..Len(last["compute_store_health"].body) :
           last["compute_store_health"].body[i].score >= 4000
    /\ \A i \in 1..Len(tables["store_health_scores"].rows) :
           tables["store_health_scores"].rows[i].score >= 4000
    /\ \A i \in 1..Len(last["compute_supplier_health"].body) :
           last["compute_supplier_health"].body[i].score >= 3000
    /\ \A i \in 1..Len(tables["supplier_health_scores"].rows) :
           tables["supplier_health_scores"].rows[i].score >= 3000

\* C28 happens: the supplier job has scored a supplier with no RRP on any
\* row, every quantity negative, an outlier and drift, at 46.0.
ScoresAboveFloorWitness ==
    LET got == last["compute_supplier_health"]
    IN  /\ got.kind = "success"
        /\ \E i \in 1..Len(got.body) :
               /\ got.body[i].missing_rrp_pct = 10000
               /\ got.body[i].negative_qty_pct = 10000
               /\ got.body[i].extreme_price_pct > 0
               /\ got.body[i].supplier_drift_flag
               /\ got.body[i].score = 4600

----------------------------------------------------------------------------
(* Rows of quantity zero in the promo job                                  *)

\* row r has its RRP, quantity and total, and the quantity is 0
Idle(r) ==
    NotNull(r.rrp) /\ NotNull(r.qty) /\ NotNull(r.total) /\ Val(r.qty) = 0

\* the rows of some rows that have a unit price
Priced(rows) == SelectSeq(rows, LAMBDA r : Val(r.qty) # 0)

\* C29: in the promo job a row of quantity 0 with RRP, quantity and total
\* present is kept and is baseline, never promo: an item with a promo row
\* and such a row has a record even with no other baseline row; the row's
\* quantity 0 enters the baseline mean quantity of the uplift; and the
\* baseline average price is taken over the other baseline rows only.
IdleRowsAreBaseline ==
    last["compute_promo_metrics"].kind # "none" =>
        LET frame == PromoFrame(sales)
            den == UnitDen(sales)
        IN  /\ Len(SelectSeq(frame, Idle)) = Len(SelectSeq(sales, Idle))
            /\ \A i \in 1..Len(frame) : Idle(frame[i]) => ~frame[i].is_promo
            /\ \A c \in Distinct(sales, "item") :
                   (/\ PromoRows(sales, c) # <<>>
                    /\ \E i \in 1..Len(sales) :
                           sales[i].item = Some(c) /\ Idle(sales[i])) =>
                       \E i \in 1..Len(PromoComputed) :
                           PromoComputed[i].Item_Code = c
            /\ \A i \in 1..Len(PromoComputed) :
                   LET promo == PromoRows(sales, PromoComputed[i].Item_Code)
                       base == BaselineRows(sales, PromoComputed[i].Item_Code)
                   IN  /\ PromoComputed[i].Promo_Uplift_pct =
                              (IF Units(base) > 0 THEN UpliftOf(promo, base) ELSE NaN)
                       /\ PromoComputed[i].Baseline_Avg_Price =
                              (IF Priced(base) = <<>> THEN NaN
                               ELSE RoundRatio(PriceSum(Priced(base), den),
                                               den * Len(Priced(base))))

\* C29 happens: the promo job has computed the record of an item whose
\* baseline holds three sales of one unit at 10 and a line of quantity 0:
\* the baseline mean quantity is 3/4, the uplift of the promo mean 2 is
\* 166.67, and the baseline average price is 10.0.
IdleRowsWitness ==
    /\ sales = Stocktake
    /\ Len(PromoComputed) = 1
    /\ Len(BaselineRows(sales, "SKU1")) = 4
    /\ Len(SelectSeq(BaselineRows(sales, "SKU1"), Idle)) = 1
    /\ PromoComputed[1].Promo_Uplift_pct = Some(16667)
    /\ PromoComputed[1].Baseline_Avg_Price = Some(1000)

\* the promo rows of item code c all have an RRP above zero
ListedAboveZero(df, c) ==
    \A i \in 1..Len(PromoRows(df, c)) : Val(PromoRows(df, c)[i].rrp) > 0

\* C30 as claimed: for every computed promo record whose promo rows all have
\* RRP > 0, Promo_Price_Impact_% is strictly less than 90.
PriceImpactBelowNinety ==
    \A i \in 1..Len(PromoComputed) :
        ListedAboveZero(sales, PromoComputed[i].Item_Code) =>
            /\ IsFinite(PromoComputed[i].Promo_Price_Impact_pct)
            /\ Val(PromoComputed[i].Promo_Price_Impact_pct) < 9000

\* C30, amended: for every computed promo record whose promo rows all have
\* RRP > 0, mean promo unit price / mean promo RRP x 100 is strictly below
\* 90 before rounding, and Promo_Price_Impact_%, its value rounded to 2
\* decimals, is at most 90.0.
PriceImpactAtMostNinety ==
    \A i \in 1..Len(PromoComputed) :
        LET c == PromoComputed[i].Item_Code
            promo == PromoRows(sales, c)
            den == UnitDen(sales)
        IN  ListedAboveZero(sales, c) =>
                /\ 10 * PriceSum(promo, den) < 9 * den * RrpSum(promo)
                /\ PromoComputed[i].Promo_Price_Impact_pct =
                       RoundRatio(100 * PriceSum(promo, den), den * RrpSum(promo))
                /\ Val(PromoComputed[i].Promo_Price_Impact_pct) <= 9000

\* C30 happens: the promo job has computed a price impact of 90.0 for an
\* item whose only promo row sells at 89999 against an RRP of 100000.
PriceImpactWitness ==
    /\ sales = HairCut
    /\ Len(PromoComputed) = 1
    /\ ListedAboveZero(sales, "SKU1")
    /\ PromoComputed[1].Promo_Price_Impact_pct = Some(9000)

====
